---- MODULE Spec2Model ----
(***************************************************************************)
(* Multi-account request dispatcher of gemini-oauth-mcp:                   *)
(*   Token Manager   (auth/token.ts,      TokenManagerImpl)                *)
(*   Account Rotator (accounts/rotator.ts, AccountRotatorImpl)             *)
(*   Gemini client   (api/client.ts,      GeminiClientImpl)                *)
(* Every await on real I/O (file read/write, fetch, delay) is a suspension *)
(* point and a separate action; code between two such awaits is one step.  *)
(* An await on an already available value only yields to the microtask     *)
(* queue, which runs to completion before any I/O callback, so it does not *)
(* split a step.  Time is in milliseconds.                                 *)
(***************************************************************************)
EXTENDS Integers, Sequences, FiniteSets, TLC

\* ---------------------------------------------------------------- bounds
MaxTicks == 1
MaxCount == 6
MaxTokens == 2
MaxSaves == 1
MaxUsed == 3

\* ------------------------------------------------------ program constants
MAX_RETRIES == 3
DEFAULT_RATE_LIMIT_MS == 60000
BASE_RETRY_DELAY_MS == 1000
TOKEN_EXPIRY_BUFFER_MS == 300000
ANTIGRAVITY_API_BASE_URLS == <<"daily", "prod", "sandbox">>

\* the clock advances in steps of one base delay
TickMs == BASE_RETRY_DELAY_MS

\* ------------------------------------------------------------ model sets
AcctIds == {"a1", "a2", "a3"}
\* the accounts the token manager is asked about
TmAcctIds == {"a1", "a2"}
Procs == {"p1", "p2"}
NoProc == "none"
NoAcct == "none"

VARIABLES
  now,              \* Date.now()
  pc,               \* position of each caller
  op,               \* the operation each caller runs
  tmAcct,           \* accountId argument of the caller's token-manager call
  tmResult,         \* outcome of the caller's token-manager call
  waitOn,           \* initiator of the refresh promise the caller awaits
  loadSnap,         \* file content read by the caller's pending storage.load()
  tokenCache,       \* TokenManagerImpl.tokenCache
  refreshPromises,  \* TokenManagerImpl.refreshPromises (keyed by account id)
  storageCache,     \* TokenManagerImpl.storageCache
  file,             \* accounts.json as seen through AccountStorage
  refreshCalls,     \* history: token-endpoint calls issued, per account
  issued,           \* history: access tokens handed out by the token endpoint
  newTok,           \* token-endpoint response held by the caller inside doRefresh
  joined,           \* history: initiator whose flight was pending when the caller entered refreshToken
  arrived,          \* history: initiator whose flight was pending when the caller made its call
  cohort,           \* history: every call for the account so far is a getAccessToken issued with no valid token while all earlier ones were pending
  mgrAccounts,      \* AccountManagerImpl.data.accounts, as the sequence of ids
  hasProject,       \* account.projectId is set
  mgrEmail,         \* account.email of every account object made so far, NoEmail for an unused id
  mgrInitialized,   \* AccountManagerImpl.initialized
  dirFile,          \* accounts.json: the ids of its accounts, in order
  dirWrites,        \* contents of the saveData() calls nobody awaits, still to be written
  addCall,          \* each caller's addAccount call: position, email, loaded or saved content, outcome
  mgrActive,        \* AccountManagerImpl.data.activeAccountId, NoAcct for null
  fileActive,       \* accounts.json: its activeAccountId
  mgrLimited,       \* AccountManagerImpl: account.rateLimit.isLimited
  mgrData,          \* AccountManagerImpl.data: the token fields of each account
  mgrSaves,         \* AccountManagerImpl.saveData() calls whose write is still to come
  rateLimits,       \* AccountRotatorImpl.rateLimits: availableAt per account, NoMark if none
  currentIndex,     \* AccountRotatorImpl.currentIndex
  usage,            \* history: QuotaTracker.incrementUsage calls per account
  quotas,           \* QuotaTrackerImpl.quotas: the record of each account id, NoQuota if none
  rq,               \* the locals of each caller's callStandardApi / callAntigravityApi
  rot               \* the last call made on the rotator directly, its answer, and history of such calls

tmVars == <<tokenCache, refreshPromises, storageCache, file, refreshCalls, issued>>
callVars == <<pc, op, tmAcct, tmResult, waitOn, loadSnap, newTok, joined, arrived, cohort>>
dirVars == <<mgrEmail, mgrInitialized, dirFile, dirWrites, addCall, mgrActive, fileActive>>
dVars == <<mgrAccounts, hasProject, dirVars, mgrLimited, mgrData, mgrSaves, rateLimits,
           currentIndex, usage, quotas, rq, rot>>
vars == <<now, tmVars, callVars, dVars>>

\* -------------------------------------------------------------- helpers
Sat(n) == IF n < MaxCount THEN n + 1 ELSE MaxCount

NoToken == [present |-> TRUE, accessToken |-> 0, expiresAt |-> 0]
Absent == [present |-> FALSE, accessToken |-> 0, expiresAt |-> 0]
NoEntry == [accessToken |-> 0, expiresAt |-> 0]
NoStorage == [loaded |-> FALSE, accounts |-> [a \in AcctIds |-> Absent]]
Loaded(accts) == [loaded |-> TRUE, accounts |-> accts]

\* access tokens are numbers that tell the account they were issued for:
\* AcctNo(a) is the token stored for a before the server started, and
\* 10 * AcctNo(a) + n the one the token endpoint hands out for the refresh
\* token of a in its n-th answer
AcctNo(a) == IF a = "a1" THEN 1 ELSE IF a = "a2" THEN 2 ELSE 3
TokenFor(a, n) == 10 * AcctNo(a) + n
TokenOwner(t) ==
  CHOOSE a \in AcctIds : AcctNo(a) = (IF t >= 10 THEN t \div 10 ELSE t)

\* the outcome of a token-manager call: the token returned, or the class of
\* the error thrown (kind) and what its message carries (err)
NoResult == [ok |-> FALSE, token |-> 0, err |-> "none", kind |-> "none"]
Ok(t) == [ok |-> TRUE, token |-> t, err |-> "none", kind |-> "none"]
AuthErr(why) ==
  [ok |-> FALSE, token |-> 0, err |-> why, kind |-> "AuthenticationError"]

\* callTokenEndpoint fails: "if (!response.ok) throw new AuthenticationError"
\* with the endpoint's error_description / error, or fetch itself rejects
callTokenEndpointError(why) ==
  [kind |-> IF why = "upstream" THEN "AuthenticationError" ELSE "TypeError",
   err |-> why]

\* doRefresh's catch: an AuthenticationError is rethrown, anything else is
\* wrapped as AuthenticationError("Token refresh failed: " + message)
doRefreshCatch_rethrow(e) ==
  [ok |-> FALSE, token |-> 0, err |-> e.err, kind |-> e.kind]
doRefreshCatch(e) ==
  IF e.kind = "AuthenticationError"
  THEN [ok |-> FALSE, token |-> 0, err |-> e.err, kind |-> e.kind]
  ELSE [ok |-> FALSE, token |-> 0, err |-> e.err, kind |-> "AuthenticationError"]

\* TokenManagerImpl.isExpired
isExpired_noBuffer(t, expiresAt) == t >= expiresAt
isExpired(t, expiresAt) == t + TOKEN_EXPIRY_BUFFER_MS >= expiresAt

\* the key of a refresh in refreshPromises: "this.refreshPromises.get(accountId)",
\* "this.refreshPromises.set(accountId, refreshPromise)"
PromiseKey_one(a) == "a1"
PromiseKey(a) == a

\* refreshToken: "if (existingPromise) return existingPromise"
HasExistingPromise_never(rp, a) == FALSE
HasExistingPromise(rp, a) == rp[a] # NoProc

\* What a caller of the token manager is left with after one synchronous
\* stretch of code: its position, its result, and the manager's maps.
Out(npc, res, tc, rp, sc, w, rc) ==
  [pc |-> npc, res |-> res, tc |-> tc, rp |-> rp, sc |-> sc, wait |-> w, rc |-> rc]

\* doRefresh after "const account = await this.getAccount(accountId)",
\* reached in the same step as refreshToken's entry: no caller can have
\* attached yet, so a rejection leaves no entry behind.
DoRefreshAfterAccount(p, a, sc) ==
  IF ~sc.accounts[a].present
  THEN Out("ga_ret", AuthErr("not_found"), tokenCache, refreshPromises, sc,
           NoProc, refreshCalls)
  ELSE Out("dr_fetch", NoResult, tokenCache,
           [refreshPromises EXCEPT ![PromiseKey(a)] = p], sc, NoProc,
           [refreshCalls EXCEPT ![a] = Sat(@)])

\* refreshToken: attach to the pending promise or start doRefresh
RefreshTokenOut(p, a, sc) ==
  IF HasExistingPromise(refreshPromises, PromiseKey(a))
  THEN Out("rt_wait", NoResult, tokenCache, refreshPromises, sc,
           refreshPromises[PromiseKey(a)], refreshCalls)
  ELSE IF ~sc.loaded
       THEN Out("dr_load", NoResult, tokenCache,
                [refreshPromises EXCEPT ![PromiseKey(a)] = p], sc, NoProc,
                refreshCalls)
       ELSE DoRefreshAfterAccount(p, a, sc)

\* getAccessToken after "const account = await this.getAccount(accountId)"
AfterGetAccount_noCache(p, a, sc) ==
  LET account == sc.accounts[a] IN
  IF ~account.present
  THEN Out("ga_ret", AuthErr("not_found"), tokenCache, refreshPromises, sc,
           NoProc, refreshCalls)
  ELSE IF /\ account.accessToken # 0
          /\ account.expiresAt # 0
          /\ ~isExpired(now, account.expiresAt)
       THEN Out("ga_ret", Ok(account.accessToken),
                tokenCache,
                refreshPromises, sc, NoProc, refreshCalls)
       ELSE RefreshTokenOut(p, a, sc)
AfterGetAccount(p, a, sc) ==
  LET account == sc.accounts[a] IN
  IF ~account.present
  THEN Out("ga_ret", AuthErr("not_found"), tokenCache, refreshPromises, sc,
           NoProc, refreshCalls)
  ELSE IF /\ account.accessToken # 0
          /\ account.expiresAt # 0
          /\ ~isExpired(now, account.expiresAt)
       THEN Out("ga_ret", Ok(account.accessToken),
                [tokenCache EXCEPT ![a] =
                   [accessToken |-> account.accessToken,
                    expiresAt |-> account.expiresAt]],
                refreshPromises, sc, NoProc, refreshCalls)
       ELSE RefreshTokenOut(p, a, sc)

\* getAccessToken from its entry to its first suspension
GetAccessTokenOut(p, a) ==
  LET cached == tokenCache[a] IN
  IF cached # NoEntry /\ ~isExpired(now, cached.expiresAt)
  THEN Out("ga_ret", Ok(cached.accessToken), tokenCache, refreshPromises,
           storageCache, NoProc, refreshCalls)
  ELSE IF ~storageCache.loaded
       THEN Out("ga_load", NoResult, tokenCache, refreshPromises,
                storageCache, NoProc, refreshCalls)
       ELSE AfterGetAccount(p, a, storageCache)

Apply(p, o) ==
  /\ pc' = [pc EXCEPT ![p] = o.pc]
  /\ tmResult' = [tmResult EXCEPT ![p] = o.res]
  /\ tokenCache' = o.tc
  /\ refreshPromises' = o.rp
  /\ storageCache' = o.sc
  /\ waitOn' = [waitOn EXCEPT ![p] = o.wait]
  /\ refreshCalls' = o.rc

\* A refresh for a is pending: some caller is inside doRefresh(a)
DoRefreshPcs == {"dr_load", "dr_fetch", "upd_load", "upd_save", "upd_done"}
Initiators(a) == {q \in Procs : pc[q] \in DoRefreshPcs /\ tmAcct[q] = a}
Active(q) == pc[q] \notin {"idle", "ga_ret"}

ValidTokenExists(a) ==
  \/ tokenCache[a] # NoEntry /\ ~isExpired(now, tokenCache[a].expiresAt)
  \/ /\ file[a].present /\ file[a].accessToken # 0
     /\ ~isExpired(now, file[a].expiresAt)

\* getAccessToken cannot be served without a refresh: no unexpired token in
\* the token cache, in the storage cache or in the file
TokenNeeded(a) ==
  /\ ~ValidTokenExists(a)
  /\ \/ ~storageCache.loaded
     \/ storageCache.accounts[a].accessToken = 0
     \/ isExpired(now, storageCache.accounts[a].expiresAt)

ArrivedNow(a, need) ==
  IF need /\ Initiators(a) # {}
  THEN CHOOSE q \in Initiators(a) : TRUE ELSE NoProc

JoinedNow(p, a, o) ==
  IF o.pc \in {"rt_wait", "dr_load", "dr_fetch"} /\ Initiators(a) # {}
  THEN CHOOSE q \in Initiators(a) : TRUE ELSE NoProc

\* The refresh promise of initiator p settles with r: p's "finally" removes
\* the entry and every caller awaiting the promise resumes with r.
Settle_keep(p, a, r, tc, sc) ==
  LET W == {q \in Procs : pc[q] = "rt_wait" /\ waitOn[q] = p} \cup {p} IN
  /\ pc' = [q \in Procs |-> IF q \in W THEN "ga_ret" ELSE pc[q]]
  /\ tmResult' = [q \in Procs |-> IF q \in W THEN r ELSE tmResult[q]]
  /\ waitOn' = [q \in Procs |-> IF q \in W THEN NoProc ELSE waitOn[q]]
  /\ refreshPromises' = refreshPromises
  /\ tokenCache' = tc
  /\ storageCache' = sc
Settle(p, a, r, tc, sc) ==
  LET W == {q \in Procs : pc[q] = "rt_wait" /\ waitOn[q] = p} \cup {p} IN
  /\ pc' = [q \in Procs |-> IF q \in W THEN "ga_ret" ELSE pc[q]]
  /\ tmResult' = [q \in Procs |-> IF q \in W THEN r ELSE tmResult[q]]
  /\ waitOn' = [q \in Procs |-> IF q \in W THEN NoProc ELSE waitOn[q]]
  /\ refreshPromises' = [refreshPromises EXCEPT ![PromiseKey(a)] = NoProc]
  /\ tokenCache' = tc
  /\ storageCache' = sc

\* ------------------------------------------------ token manager: actions
\* TokenManager.getAccessToken(a) called by p
StartGetAccessToken(p, a) ==
  /\ pc[p] = "idle"
  /\ op' = [op EXCEPT ![p] = "token"]
  /\ tmAcct' = [tmAcct EXCEPT ![p] = a]
  /\ LET o == GetAccessTokenOut(p, a) IN
       /\ Apply(p, o)
       /\ joined' = [joined EXCEPT ![p] = JoinedNow(p, a, o)]
       /\ arrived' = [arrived EXCEPT ![p] = ArrivedNow(a, TokenNeeded(a))]
  /\ cohort' = [cohort EXCEPT ![a] =
        /\ @
        /\ ~ValidTokenExists(a)
        /\ \A q \in Procs : (tmAcct[q] = a /\ pc[q] # "idle") => Active(q)]
  /\ UNCHANGED dVars
  /\ UNCHANGED <<now, file, issued, loadSnap, newTok>>

\* TokenManager.refreshToken(a) called by p
StartRefresh(p, a) ==
  /\ pc[p] = "idle"
  /\ op' = [op EXCEPT ![p] = "refresh"]
  /\ tmAcct' = [tmAcct EXCEPT ![p] = a]
  /\ LET o == RefreshTokenOut(p, a, storageCache) IN
       /\ Apply(p, o)
       /\ joined' = [joined EXCEPT ![p] = JoinedNow(p, a, o)]
       /\ arrived' = [arrived EXCEPT ![p] = ArrivedNow(a, TRUE)]
  /\ cohort' = [cohort EXCEPT ![a] = FALSE]
  /\ UNCHANGED dVars
  /\ UNCHANGED <<now, file, issued, loadSnap, newTok>>

\* AccountStorage.load(): fs.readFile reads the file at some moment between
\* the call and the resumption of the caller
StorageRead(p) ==
  /\ pc[p] \in {"ga_load", "dr_load"}
  /\ ~loadSnap[p].loaded
  /\ loadSnap' = [loadSnap EXCEPT ![p] = Loaded(file)]
  /\ UNCHANGED dVars
  /\ UNCHANGED <<now, tmVars, pc, op, tmAcct, tmResult, waitOn, newTok, joined, arrived, cohort>>

\* getAccount inside getAccessToken resumes: "this.storageCache = await
\* this.storage.load()", then the rest of getAccessToken
GaLoadDone(p) ==
  /\ pc[p] = "ga_load"
  /\ loadSnap[p].loaded
  /\ LET o == AfterGetAccount(p, tmAcct[p], loadSnap[p]) IN
       /\ Apply(p, o)
       /\ joined' = [joined EXCEPT ![p] = JoinedNow(p, tmAcct[p], o)]
  /\ loadSnap' = [loadSnap EXCEPT ![p] = NoStorage]
  /\ UNCHANGED dVars
  /\ UNCHANGED <<now, file, issued, op, tmAcct, newTok, arrived, cohort>>

\* getAccount inside doRefresh resumes
DrLoadDone(p) ==
  /\ pc[p] = "dr_load"
  /\ loadSnap[p].loaded
  /\ LET a == tmAcct[p]
         sc == loadSnap[p] IN
       IF ~sc.accounts[a].present
       THEN /\ Settle(p, a, AuthErr("not_found"), tokenCache, sc)
            /\ UNCHANGED refreshCalls
       ELSE /\ pc' = [pc EXCEPT ![p] = "dr_fetch"]
            /\ storageCache' = sc
            /\ refreshCalls' = [refreshCalls EXCEPT ![a] = Sat(@)]
            /\ UNCHANGED <<tmResult, waitOn, refreshPromises, tokenCache>>
  /\ loadSnap' = [loadSnap EXCEPT ![p] = NoStorage]
  /\ UNCHANGED dVars
  /\ UNCHANGED <<now, file, issued, op, tmAcct, newTok, joined, arrived, cohort>>

\* callTokenEndpoint: the token endpoint answers 200 {access_token, expires_in}
\* (expires_in = e / 1000; each answer carries a token not handed out before);
\* ten-minute and four-minute tokens
ExpiresInMs == {600000, 240000}
TokenOk(p, e) ==
  /\ pc[p] = "dr_fetch"
  /\ issued < MaxTokens
  /\ newTok' = [newTok EXCEPT ![p] =
                  [accessToken |-> TokenFor(tmAcct[p], issued),
                   expiresAt |-> now + e]]
  /\ issued' = issued + 1
  /\ pc' = [pc EXCEPT ![p] = "upd_load"]
  /\ UNCHANGED dVars
  /\ UNCHANGED <<now, tokenCache, refreshPromises, storageCache, file,
                 refreshCalls, op, tmAcct, tmResult, waitOn, loadSnap, joined, arrived, cohort>>

\* callTokenEndpoint: non-2xx answer, or fetch rejects; doRefresh's catch
\* rethrows or wraps it as AuthenticationError
TokenFail(p) ==
  /\ pc[p] = "dr_fetch"
  /\ \E why \in {"upstream", "network"} :
       Settle(p, tmAcct[p], doRefreshCatch(callTokenEndpointError(why)),
              tokenCache, storageCache)
  /\ UNCHANGED dVars
  /\ UNCHANGED <<now, file, refreshCalls, issued, op, tmAcct, loadSnap, newTok, joined, arrived, cohort>>

\* updateAccountToken: "const storage = await this.storage.load()" up to the
\* call of storage.save(storage)
UpdLoad(p) ==
  /\ pc[p] = "upd_load"
  /\ LET a == tmAcct[p] IN
       IF ~file[a].present
       THEN /\ Settle(p, a, AuthErr("not_found"), tokenCache, storageCache)
            /\ UNCHANGED loadSnap
       ELSE /\ loadSnap' = [loadSnap EXCEPT ![p] =
                   Loaded([file EXCEPT ![a] =
                     [present |-> TRUE,
                      accessToken |-> newTok[p].accessToken,
                      expiresAt |-> newTok[p].expiresAt]])]
            /\ pc' = [pc EXCEPT ![p] = "upd_save"]
            /\ UNCHANGED <<tmResult, waitOn, refreshPromises, tokenCache, storageCache>>
  /\ UNCHANGED dVars
  /\ UNCHANGED <<now, file, refreshCalls, issued, op, tmAcct, newTok, joined, arrived, cohort>>

\* AccountStorage.save(storage): the file is replaced
UpdSave(p) ==
  /\ pc[p] = "upd_save"
  /\ file' = loadSnap[p].accounts
  /\ pc' = [pc EXCEPT ![p] = "upd_done"]
  /\ UNCHANGED dVars
  /\ UNCHANGED <<now, tokenCache, refreshPromises, storageCache, refreshCalls,
                 issued, op, tmAcct, tmResult, waitOn, loadSnap, newTok, joined, arrived, cohort>>

\* updateAccountToken resumes after save: storageCache, cacheToken, return
UpdDone(p) ==
  /\ pc[p] = "upd_done"
  /\ Settle(p, tmAcct[p], Ok(newTok[p].accessToken),
            [tokenCache EXCEPT ![tmAcct[p]] = newTok[p]], loadSnap[p])
  /\ loadSnap' = [loadSnap EXCEPT ![p] = NoStorage]
  /\ newTok' = [newTok EXCEPT ![p] = NoEntry]
  /\ UNCHANGED dVars
  /\ UNCHANGED <<now, file, refreshCalls, issued, op, tmAcct, joined, arrived, cohort>>

\* TokenManager.clearCache()
ClearCache ==
  /\ tokenCache' = [a \in AcctIds |-> NoEntry]
  /\ storageCache' = NoStorage
  /\ UNCHANGED dVars
  /\ cohort' = [a \in AcctIds |-> FALSE]
  /\ UNCHANGED <<now, refreshPromises, file, refreshCalls, issued,
                 pc, op, tmAcct, tmResult, waitOn, loadSnap, newTok, joined, arrived>>

\* TokenManager.clearCache(accountId)
ClearCacheOne(a) ==
  /\ tokenCache' = [tokenCache EXCEPT ![a] = NoEntry]
  /\ UNCHANGED dVars
  /\ cohort' = [cohort EXCEPT ![a] = FALSE]
  /\ UNCHANGED <<now, refreshPromises, storageCache, file, refreshCalls, issued,
                 pc, op, tmAcct, tmResult, waitOn, loadSnap, newTok, joined, arrived>>

\* the clock advances
Tick ==
  /\ now < MaxTicks * TickMs
  /\ now' = now + TickMs
  /\ UNCHANGED <<tmVars, callVars, dVars>>

\* ------------------------------------------------------ account rotator
\* no call has been made on the rotator directly; kind "other": the last
\* call was made on the account manager
NoRot ==
  [kind |-> "none", ok |-> FALSE, account |-> NoAcct, retryAfterMs |-> 0,
   answer |-> {}, cleaned |-> {}, prev |-> NoAcct, picks |-> <<>>]

NoMark == -1
Range(s) == {s[i] : i \in 1..Len(s)}
SetMin(S) == CHOOSE x \in S : \A y \in S : x <= y
Max2(x, y) == IF x >= y THEN x ELSE y

\* "Date.now() >= entry.availableAt": the mark has expired
IsMarkExpired_never(t, availableAt) == FALSE
IsMarkExpired(t, availableAt) == t >= availableAt

\* the filter of getAvailableAccounts: "if (!entry) return true", "if (now >=
\* entry.availableAt) return true", "return false"; nothing else is consulted
KeepsAccount_quota(rl, a, t) ==
  /\ rl[a] = NoMark \/ IsMarkExpired(t, rl[a])
  /\ ~(quotas[a].has /\ quotas[a].used >= quotas[a].limit)
KeepsAccount(rl, a, t) == rl[a] = NoMark \/ IsMarkExpired(t, rl[a])

\* getAvailableAccounts: the accounts of the directory without an unexpired mark
getAvailableAccounts_all(rl, t) == Range(mgrAccounts)
getAvailableAccounts(rl, t) ==
  {a \in Range(mgrAccounts) : KeepsAccount(rl, a, t)}

\* getAvailableAccounts' side effect: expired marks of directory accounts are deleted
CleanLimits_keep(rl, t) == rl
CleanLimits(rl, t) ==
  [a \in AcctIds |->
     IF a \in Range(mgrAccounts) /\ rl[a] # NoMark /\ IsMarkExpired(t, rl[a])
     THEN NoMark ELSE rl[a]]

getEarliestRetryTime(rl, t) ==
  LET M == {rl[a] : a \in {x \in AcctIds : rl[x] # NoMark}} IN
  IF M = {} THEN 0 ELSE Max2(0, SetMin(M) - t)

\* "const index = this.currentIndex % allAccounts.length"
ScanStart_zero(idx, n) == 0
ScanStart(idx, n) == idx % n

\* "this.currentIndex = (this.currentIndex + 1) % allAccounts.length", for the
\* slot i that was just looked at
NextCursor_stay(i, n) == i % n
NextCursor(i, n) == (i + 1) % n

\* getNextAccount: the account returned (or the AllAccountsRateLimitedError
\* thrown), and the rotator's maps afterwards
getNextAccount(rl, idx, t) ==
  LET avail == getAvailableAccounts(rl, t)
      rl2 == CleanLimits(rl, t)
      n == Len(mgrAccounts)
      start == ScanStart(idx, n)
      At(k) == mgrAccounts[((start + k) % n) + 1]
  IN IF avail = {}
     THEN [ok |-> FALSE, account |-> NoAcct, rl |-> rl2, idx |-> idx,
           retryAfterMs |-> getEarliestRetryTime(rl2, t)]
     ELSE LET k == CHOOSE k \in 0..(n - 1) :
                     /\ At(k) \in avail
                     /\ \A j \in 0..(k - 1) : At(j) \notin avail
          IN [ok |-> TRUE, account |-> At(k), rl |-> rl2,
              idx |-> NextCursor(start + k, n), retryAfterMs |-> 0]

\* markRateLimited: "availableAt = Date.now() + retryAfterMs"
markRateLimited_known(rl, a, ms, t) ==
  IF a \in Range(mgrAccounts) THEN [rl EXCEPT ![a] = t + ms] ELSE rl
markRateLimited(rl, a, ms, t) == [rl EXCEPT ![a] = t + ms]

\* AccountManager.updateAccountStatus(a, "limited"): throws for an unknown
\* account (swallowed by the rotator), else sets the flag and calls saveData()
StatusAfterMark(lim, a) ==
  IF a \in Range(mgrAccounts) THEN [lim EXCEPT ![a] = TRUE] ELSE lim
SavesAfterMark(n, a) ==
  IF a \in Range(mgrAccounts) /\ n < MaxSaves THEN n + 1 ELSE n

\* ------------------------------------------------------ account directory
NoEmail == "none"
\* the emails given to addAccount
Emails == {"ann@x.io", "Ann@x.io", "bob@x.io"}

\* String.prototype.toLowerCase on these emails
toLowerCase_same(e) == e
toLowerCase(e) == IF e = "Ann@x.io" THEN "ann@x.io" ELSE e

\* the emails of the accounts of a directory that was filled earlier
DefaultEmails ==
  [a \in AcctIds |-> CASE a = "a1" -> "u1@x.io" [] a = "a2" -> "u2@x.io"
                       [] OTHER -> "u3@x.io"]

\* addAccount's find: the accounts of the list whose email equals e once both
\* are lower-cased
existingAccount(accts, em, e) ==
  {a \in Range(accts) : toLowerCase(em[a]) = toLowerCase(e)}

\* crypto.randomUUID(): an id no account object has had
UnusedIds(em) == {a \in AcctIds : em[a] = NoEmail}
randomUUID(em) ==
  CHOOSE a \in UnusedIds(em) : \A b \in UnusedIds(em) : AcctNo(a) <= AcctNo(b)

NoAdd ==
  [pc |-> "idle", email |-> NoEmail, content |-> <<>>, active |-> NoAcct,
   out |-> "none"]

\* this.data.accounts[0]?.id ?? null
firstAccount(accts) == IF accts = <<>> THEN NoAcct ELSE accts[1]

\* removeAccount(a) on the active-account pointer act, accts being the list
\* after the splice
activeAfterRemove_keep(act, accts, a) == act
activeAfterRemove(act, accts, a) == IF act = a THEN firstAccount(accts) ELSE act

\* an initialized manager whose list is what the file holds, no addAccount
\* under way
DirLoaded ==
  /\ mgrEmail = DefaultEmails
  /\ mgrInitialized = TRUE
  /\ dirFile = mgrAccounts
  /\ dirWrites = {}
  /\ addCall = [p \in Procs |-> NoAdd]
  /\ mgrActive = firstAccount(mgrAccounts)
  /\ fileActive = mgrActive

\* --------------------------------------------------------- quota tracker
NoQuota == [has |-> FALSE, used |-> 0, limit |-> 0]
QuotaRecord(used, limit) == [has |-> TRUE, used |-> used, limit |-> limit]

\* updateQuota: ignored for an account that is not in the directory
updateQuota(qs, a, used, limit) ==
  IF a \in Range(mgrAccounts)
  THEN [qs EXCEPT ![a] = QuotaRecord(used, limit)] ELSE qs

\* QuotaTrackerImpl.incrementUsage on the records: "if (!quotaData) return;
\* quotaData.used += 1"
incrementUsed(qs, a) ==
  IF qs[a].has THEN [qs EXCEPT ![a].used = @ + 1] ELSE qs

\* resetQuota: "quotaData.used = 0"
resetQuota(qs, a) ==
  IF qs[a].has THEN [qs EXCEPT ![a].used = 0] ELSE qs

\* QuotaTrackerImpl.isLimited: "used >= limit"
isLimited_never(used, limit) == FALSE
isLimited(used, limit) == used >= limit

\* getTotalAvailable: the loop over the records, those of ids that are not
\* in the directory skipped
RECURSIVE TotalOver(_, _)
TotalOver(qs, S) ==
  IF S = {} THEN 0
  ELSE LET a == CHOOSE x \in S : TRUE
           rest == TotalOver(qs, S \ {a})
       IN IF a \notin Range(mgrAccounts) THEN rest
          ELSE IF ~isLimited(qs[a].used, qs[a].limit)
               THEN rest + (qs[a].limit - qs[a].used)
               ELSE rest
getTotalAvailable(qs) == TotalOver(qs, {a \in AcctIds : qs[a].has})

\* ----------------------------------------------------- request dispatcher
Pow2(n) == IF n <= 0 THEN 1 ELSE IF n = 1 THEN 2 ELSE IF n = 2 THEN 4 ELSE IF n = 3 THEN 8 ELSE 16

\* getBackoffDelay: BASE_RETRY_DELAY_MS * Math.pow(2, attempt - 1)
getBackoffDelay_linear(attempt) == BASE_RETRY_DELAY_MS * attempt
getBackoffDelay(attempt) == BASE_RETRY_DELAY_MS * Pow2(attempt - 1)

\* "retryAfterHeader ? parseInt(retryAfterHeader, 10) * 1000 : DEFAULT_RATE_LIMIT_MS"
\* (ra = -1: the 429 carries no Retry-After header)
RetryAfterMs(ra) == IF ra # -1 THEN ra * 1000 ELSE DEFAULT_RATE_LIMIT_MS

\* callAntigravityApi: "rateLimitedEndpointCount === ANTIGRAVITY_API_BASE_URLS.length"
AllEndpointsLimited_any(count) == count >= 1
AllEndpointsLimited(count) == count = Len(ANTIGRAVITY_API_BASE_URLS)

\* the catch blocks: "error instanceof RateLimitError || error instanceof ApiError"
IsRethrown(kind) == kind \in {"RateLimitError", "ApiError"}

\* "while (networkRetryCount <= MAX_RETRIES)"
WithinBudget_off(n) == n < MAX_RETRIES
WithinBudget(n) == n <= MAX_RETRIES

NoError == [kind |-> "none", status |-> 0, retryAfterMs |-> 0, message |-> "none"]
NewRq(fam) ==
  [family |-> fam, account |-> NoAcct, networkRetryCount |-> 0, epIdx |-> 0,
   rateLimitedEndpointCount |-> 0, lastRateLimitRetryMs |-> 0,
   seen429 |-> FALSE, all429 |-> TRUE, delays |-> <<>>, attempts |-> 0,
   markFlip |-> FALSE, lastMark |-> [account |-> NoAcct, ms |-> 0],
   lastError |-> "none", error |-> NoError, text |-> <<>>, parts |-> <<>>,
   onlyTransient |-> TRUE,
   \* history: every answer of this Antigravity attempt so far was a 429
   \* that carried a Retry-After header
   allRetryAfter |-> TRUE,
   \* the tool handler's currentEmail and retryCount
   header |-> NoEmail, toolRetry |-> 0]
IdleRq == NewRq("none")

RetryAfterVals == {-1, 0, 1}

\* the content.parts of the first candidate, each part by its text (a
\* sequence of characters, empty for a part without text)
TextParts ==
  {<< <<>> >>, << <<"A">> >>, << <<"A">>, <<"B">> >>, << <<>>, <<"B">> >>}

\* what fetch() of the standard endpoint can produce (status 0: fetch
\* rejects); body "notjson": response.json() rejects, "parts": the first
\* candidate has content.parts
StdResponses ==
  {[status |-> 0, ra |-> -1, body |-> "none", parts |-> <<>>]}
    \cup {[status |-> 429, ra |-> r, body |-> "none", parts |-> <<>>] :
            r \in RetryAfterVals}
    \cup {[status |-> st, ra |-> -1, body |-> b, parts |-> <<>>] :
            st \in {400, 500}, b \in {"json", "notjson"}}
    \cup {[status |-> 200, ra |-> -1, body |-> b, parts |-> <<>>] :
            b \in {"nocandidates", "noparts", "notjson"}}
    \cup {[status |-> 200, ra |-> -1, body |-> "parts", parts |-> ps] :
            ps \in TextParts}

\* what fetch() of one Antigravity base URL can produce; body "sse": the
\* stream is read and its data lines carry the parts, "text": the error text
\* is read, "fail": reading the body rejects
AgResponses ==
  {[status |-> 0, ra |-> -1, body |-> "none", parts |-> <<>>]}
    \cup {[status |-> 429, ra |-> r, body |-> "none", parts |-> <<>>] :
            r \in RetryAfterVals}
    \cup {[status |-> st, ra |-> -1, body |-> "none", parts |-> <<>>] :
            st \in {404, 500}}
    \cup {[status |-> 400, ra |-> -1, body |-> b, parts |-> <<>>] :
            b \in {"text", "fail"}}
    \cup {[status |-> 200, ra |-> -1, body |-> "fail", parts |-> <<>>]}
    \cup {[status |-> 200, ra |-> -1, body |-> "sse", parts |-> ps] :
            ps \in TextParts}

\* extractStandardResponseText: the text of parts[0], or ApiError
extractStandardResponseText_lenient(body, parts) ==
  [ok |-> TRUE, text |-> IF body = "parts" /\ Len(parts) > 0 THEN parts[1] ELSE <<>>]
extractStandardResponseText(body, parts) ==
  IF body = "nocandidates" THEN [ok |-> FALSE, text |-> <<>>]
  ELSE IF body = "noparts" \/ Len(parts) = 0 THEN [ok |-> FALSE, text |-> <<>>]
  ELSE IF parts[1] = <<>> THEN [ok |-> FALSE, text |-> <<>>]
  ELSE [ok |-> TRUE, text |-> parts[1]]

\* parseAntigravitySSEResponse: "if (part.text) fullText += part.text" over
\* the parts of every data line
RECURSIVE parseAntigravitySSEResponse(_)
parseAntigravitySSEResponse(parts) ==
  IF parts = <<>> THEN <<>>
  ELSE Head(parts) \o parseAntigravitySSEResponse(Tail(parts))

\* QuotaTracker.incrementUsage as called by the dispatcher
incrementUsage_twice(u, a) == [u EXCEPT ![a] = Sat(Sat(@))]
incrementUsage(u, a) == [u EXCEPT ![a] = Sat(@)]

\* the dispatcher step leaves the caller at npc without entering the loop again
Stay(p, npc, r, rl, lim, saves) ==
  /\ pc' = [pc EXCEPT ![p] = npc]
  /\ rq' = [rq EXCEPT ![p] = r]
  /\ rateLimits' = rl
  /\ mgrLimited' = lim
  /\ mgrSaves' = saves
  /\ UNCHANGED <<tmAcct, tmResult, waitOn, tokenCache, refreshPromises,
                 storageCache, refreshCalls, currentIndex, joined, arrived>>

Throw(p, r, e, rl, lim, saves) ==
  Stay(p, "failed", [r EXCEPT !.error = e], rl, lim, saves)

\* top of "while (networkRetryCount <= MAX_RETRIES)": the loop test,
\* rotator.getNextAccount(), the projectId test of the Antigravity family and
\* tokenManager.getAccessToken(account.id) up to its first suspension
LoopTopAt(p, r, rl, idx, lim, saves) ==
  IF ~WithinBudget(r.networkRetryCount)
  THEN Throw(p, r, [kind |-> "ApiError", status |-> 0, retryAfterMs |-> 0,
                         message |-> "Request failed after retries"],
             rl, lim, saves)
  ELSE LET g == getNextAccount(rl, idx, now) IN
       IF ~g.ok
       THEN Throw(p, r, [kind |-> "RateLimitError", status |-> 0,
                         retryAfterMs |-> g.retryAfterMs,
                         message |-> "All accounts rate limited"],
                  g.rl, lim, saves)
       ELSE IF r.family = "antigravity" /\ ~hasProject[g.account]
       THEN /\ pc' = [pc EXCEPT ![p] = "ag_skip"]
            /\ rq' = [rq EXCEPT ![p] = [r EXCEPT !.account = g.account]]
            /\ rateLimits' = g.rl
            /\ currentIndex' = g.idx
            /\ mgrLimited' = lim
            /\ mgrSaves' = saves
            /\ UNCHANGED <<tmAcct, tmResult, waitOn, tokenCache, refreshPromises,
                           storageCache, refreshCalls, joined, arrived>>
       ELSE LET o == GetAccessTokenOut(p, g.account) IN
            /\ Apply(p, o)
            /\ joined' = [joined EXCEPT ![p] = JoinedNow(p, g.account, o)]
            /\ arrived' = [arrived EXCEPT ![p] = ArrivedNow(g.account, TokenNeeded(g.account))]
            /\ tmAcct' = [tmAcct EXCEPT ![p] = g.account]
            /\ rq' = [rq EXCEPT ![p] =
                 [r EXCEPT !.account = g.account, !.attempts = Sat(@),
                           !.epIdx = 0, !.seen429 = FALSE, !.all429 = TRUE]]
            /\ rateLimits' = g.rl
            /\ currentIndex' = g.idx
            /\ mgrLimited' = lim
            /\ mgrSaves' = saves

LoopTop(p, r, rl, lim, saves) ==
  LoopTopAt(p, r, rl, currentIndex, lim, saves)

\* the outer catch for an error that is neither RateLimitError nor ApiError:
\* count it, remember it, wait if the budget allows, and loop
NetworkFail(p, r, why, rl, lim, saves) ==
  LET n == r.networkRetryCount + 1
      r2 == [r EXCEPT !.networkRetryCount = n, !.lastError = why] IN
  IF WithinBudget(n)
  THEN Stay(p, "backoff", [r2 EXCEPT !.delays = Append(@, getBackoffDelay(n))],
            rl, lim, saves)
  ELSE LoopTop(p, r2, rl, lim, saves)

DFrame == UNCHANGED <<now, file, issued, loadSnap, newTok, cohort,
                      mgrAccounts, hasProject, dirVars, mgrData, rot>>

\* GeminiClient.generateContent / chat: callApi picks the family by model id
StartGenerate(p, fam) ==
  /\ pc[p] = "idle"
  /\ op' = [op EXCEPT ![p] = "generate"]
  /\ LoopTop(p, NewRq(fam), rateLimits, mgrLimited, mgrSaves)
  /\ UNCHANGED <<usage, quotas>>
  /\ DFrame

\* "if (!projectId) { ...; continue; }": the loop goes round without
\* suspending and without counting; one round is one step
AgSkip(p) ==
  /\ pc[p] = "ag_skip"
  /\ LoopTop(p, rq[p], rateLimits, mgrLimited, mgrSaves)
  /\ UNCHANGED <<op, usage, quotas>>
  /\ DFrame

\* "await this.tokenManager.getAccessToken(account.id)" resumes: with the
\* token the request is sent, an error goes to the outer catch
OnToken(p) ==
  /\ pc[p] = "ga_ret"
  /\ op[p] = "generate"
  /\ LET r == rq[p] IN
       IF tmResult[p].ok
       THEN IF r.family = "standard"
            THEN Stay(p, "std_fetch", r, rateLimits, mgrLimited, mgrSaves)
            ELSE Stay(p, "ag_fetch",
                      [r EXCEPT !.epIdx = 1,
                                !.rateLimitedEndpointCount = 0,
                                !.lastRateLimitRetryMs = DEFAULT_RATE_LIMIT_MS,
                                !.allRetryAfter = TRUE],
                      rateLimits, mgrLimited, mgrSaves)
       ELSE IF IsRethrown("AuthenticationError")
            THEN Throw(p, r, [kind |-> "AuthenticationError", status |-> 0,
                              retryAfterMs |-> 0, message |-> tmResult[p].err],
                       rateLimits, mgrLimited, mgrSaves)
            ELSE NetworkFail(p, [r EXCEPT !.onlyTransient = FALSE],
                             "AuthenticationError", rateLimits, mgrLimited, mgrSaves)
  /\ UNCHANGED <<op, usage, quotas>>
  /\ DFrame

\* "await this.delayFn(...)" resumes and the loop goes round
DelayDone(p) ==
  /\ pc[p] = "backoff"
  /\ LoopTop(p, rq[p], rateLimits, mgrLimited, mgrSaves)
  /\ UNCHANGED <<op, usage, quotas>>
  /\ DFrame

\* callStandardApi: the fetch settles and the response is handled
StdResponse(p, resp) ==
  /\ pc[p] = "std_fetch"
  /\ LET r == [rq[p] EXCEPT !.seen429 = (resp.status = 429),
                            !.all429 = (resp.status = 429),
                            !.onlyTransient = (@ /\ resp.status \in {0, 500})]
         a == r.account
     IN
     CASE resp.status = 0 ->
            /\ NetworkFail(p, r, "Error", rateLimits, mgrLimited, mgrSaves)
            /\ UNCHANGED <<usage, quotas>>
       [] resp.status = 429 ->
            LET ms == RetryAfterMs(resp.ra) IN
            /\ LoopTop(p, [r EXCEPT !.markFlip = ~@,
                                    !.lastMark = [account |-> a, ms |-> ms]],
                       markRateLimited(rateLimits, a, ms, now),
                       StatusAfterMark(mgrLimited, a), SavesAfterMark(mgrSaves, a))
            /\ UNCHANGED <<usage, quotas>>
       [] resp.status \in {400, 500} /\ resp.body = "notjson" ->
            /\ NetworkFail(p, r, "Error", rateLimits, mgrLimited, mgrSaves)
            /\ UNCHANGED <<usage, quotas>>
       [] resp.status = 500 /\ resp.body = "json" ->
            LET n == r.networkRetryCount + 1
                r2 == [r EXCEPT !.networkRetryCount = n, !.lastError = "ApiError"] IN
            /\ IF WithinBudget(n)
               THEN Stay(p, "backoff",
                         [r2 EXCEPT !.delays = Append(@, getBackoffDelay(n))],
                         rateLimits, mgrLimited, mgrSaves)
               ELSE Throw(p, r2, [kind |-> "ApiError", status |-> resp.status,
                                  retryAfterMs |-> 0, message |-> "API error"],
                          rateLimits, mgrLimited, mgrSaves)
            /\ UNCHANGED <<usage, quotas>>
       [] resp.status = 400 /\ resp.body = "json" ->
            /\ Throw(p, r, [kind |-> "ApiError", status |-> resp.status,
                            retryAfterMs |-> 0, message |-> "API error"],
                     rateLimits, mgrLimited, mgrSaves)
            /\ UNCHANGED <<usage, quotas>>
       [] resp.status = 200 /\ resp.body = "notjson" ->
            /\ NetworkFail(p, r, "Error", rateLimits, mgrLimited, mgrSaves)
            /\ UNCHANGED <<usage, quotas>>
       [] resp.status = 200 /\ resp.body # "notjson" ->
            LET x == extractStandardResponseText(resp.body, resp.parts) IN
            IF x.ok
            THEN /\ Stay(p, "done", [r EXCEPT !.text = x.text, !.parts = resp.parts],
                         rateLimits, mgrLimited, mgrSaves)
                 /\ usage' = incrementUsage(usage, a)
                 /\ quotas' = incrementUsed(quotas, a)
            ELSE /\ Throw(p, r, [kind |-> "ApiError", status |-> 0,
                                 retryAfterMs |-> 0, message |-> "Empty response"],
                          rateLimits, mgrLimited, mgrSaves)
                 /\ UNCHANGED <<usage, quotas>>
  /\ UNCHANGED op
  /\ DFrame

\* callAntigravityApi: after the last base URL of the attempt
AgAttemptEnd(p, r) ==
  LET a == r.account
      mark == AllEndpointsLimited(r.rateLimitedEndpointCount)
      ms == r.lastRateLimitRetryMs
      r1 == IF mark
            THEN [r EXCEPT !.markFlip = ~@,
                           !.lastMark = [account |-> a, ms |-> ms]]
            ELSE r
      rl == IF mark THEN markRateLimited(rateLimits, a, ms, now) ELSE rateLimits
      lim == IF mark THEN StatusAfterMark(mgrLimited, a) ELSE mgrLimited
      saves == IF mark THEN SavesAfterMark(mgrSaves, a) ELSE mgrSaves
      n == r.networkRetryCount + 1
      r2 == [r1 EXCEPT !.networkRetryCount = n, !.lastError = "ApiError",
                       !.allRetryAfter = TRUE]
  IN IF WithinBudget(n)
     THEN Stay(p, "backoff", [r2 EXCEPT !.delays = Append(@, getBackoffDelay(n))],
               rl, lim, saves)
     ELSE LoopTop(p, r2, rl, lim, saves)

\* callAntigravityApi: "continue" of the for loop over the base URLs
AgNextEndpoint(p, r) ==
  IF r.epIdx < Len(ANTIGRAVITY_API_BASE_URLS)
  THEN Stay(p, "ag_fetch", [r EXCEPT !.epIdx = @ + 1],
            rateLimits, mgrLimited, mgrSaves)
  ELSE AgAttemptEnd(p, r)

\* callAntigravityApi: the fetch of one base URL settles
AgResponse(p, resp) ==
  /\ pc[p] = "ag_fetch"
  /\ LET r == [rq[p] EXCEPT !.seen429 = (@ \/ resp.status = 429),
                            !.all429 = (@ /\ resp.status = 429),
                            !.onlyTransient = (@ /\ resp.status \in {0, 500}),
                            !.allRetryAfter =
                               (@ /\ resp.status = 429 /\ resp.ra # -1)]
         a == r.account
     IN
     CASE resp.status = 429 ->
            /\ AgNextEndpoint(p,
                 [r EXCEPT !.rateLimitedEndpointCount = @ + 1,
                           !.lastRateLimitRetryMs = Max2(@, RetryAfterMs(resp.ra))])
            /\ UNCHANGED <<usage, quotas>>
       [] resp.status \in {0, 404, 500} ->
            /\ AgNextEndpoint(p, r)
            /\ UNCHANGED <<usage, quotas>>
       [] resp.status \in {200, 400} /\ resp.body = "fail" ->
            /\ AgNextEndpoint(p, r)
            /\ UNCHANGED <<usage, quotas>>
       [] resp.status = 400 /\ resp.body = "text" ->
            /\ Throw(p, r, [kind |-> "ApiError", status |-> resp.status,
                            retryAfterMs |-> 0, message |-> "API error"],
                     rateLimits, mgrLimited, mgrSaves)
            /\ UNCHANGED <<usage, quotas>>
       [] resp.status = 200 /\ resp.body = "sse" ->
            LET text == parseAntigravitySSEResponse(resp.parts) IN
            IF text # <<>>
            THEN /\ Stay(p, "done", [r EXCEPT !.text = text, !.parts = resp.parts],
                         rateLimits, mgrLimited, mgrSaves)
                 /\ usage' = incrementUsage(usage, a)
                 /\ quotas' = incrementUsed(quotas, a)
            ELSE /\ Throw(p, r, [kind |-> "ApiError", status |-> 0,
                                 retryAfterMs |-> 0, message |-> "Empty response"],
                          rateLimits, mgrLimited, mgrSaves)
                 /\ UNCHANGED <<usage, quotas>>
  /\ UNCHANGED op
  /\ DFrame

\* -------------------------------------------- token manager on its own
InitialRecords ==
  {NoToken} \cup
  {[present |-> TRUE, accessToken |-> AcctNo(a),
    expiresAt |-> TickMs + TOKEN_EXPIRY_BUFFER_MS] : a \in AcctIds}

InitTM ==
  /\ now = 0
  /\ pc = [p \in Procs |-> "idle"]
  /\ op = [p \in Procs |-> "none"]
  /\ tmAcct = [p \in Procs |-> NoAcct]
  /\ tmResult = [p \in Procs |-> NoResult]
  /\ waitOn = [p \in Procs |-> NoProc]
  /\ loadSnap = [p \in Procs |-> NoStorage]
  /\ newTok = [p \in Procs |-> NoEntry]
  /\ joined = [p \in Procs |-> NoProc]
  /\ arrived = [p \in Procs |-> NoProc]
  /\ cohort = [a \in AcctIds |-> a \in TmAcctIds]
  /\ tokenCache = [a \in AcctIds |-> NoEntry]
  /\ refreshPromises = [a \in AcctIds |-> NoProc]
  /\ storageCache = NoStorage
  /\ file \in [AcctIds -> InitialRecords \cup {Absent}]
  /\ \A a \in AcctIds : file[a].present <=> a \in TmAcctIds
  /\ \A a \in AcctIds : file[a].accessToken \in {0, AcctNo(a)}
  /\ refreshCalls = [a \in AcctIds |-> 0]
  /\ issued = 0
  /\ mgrAccounts = <<"a1", "a2">>
  /\ hasProject = [a \in AcctIds |-> TRUE]
  /\ DirLoaded
  /\ mgrLimited = [a \in AcctIds |-> FALSE]
  /\ mgrData = file
  /\ mgrSaves = 0
  /\ rateLimits = [a \in AcctIds |-> NoMark]
  /\ currentIndex = 0
  /\ usage = [a \in AcctIds |-> 0]
  /\ quotas = [a \in AcctIds |-> NoQuota]
  /\ rq = [p \in Procs |-> IdleRq]
  /\ rot = NoRot

NextTM ==
  \/ \E p \in Procs, a \in TmAcctIds : StartGetAccessToken(p, a)
  \/ \E p \in Procs, a \in TmAcctIds : StartRefresh(p, a)
  \/ \E p \in Procs : StorageRead(p)
  \/ \E p \in Procs : GaLoadDone(p)
  \/ \E p \in Procs : DrLoadDone(p)
  \/ \E p \in Procs, e \in ExpiresInMs : TokenOk(p, e)
  \/ \E p \in Procs : TokenFail(p)
  \/ \E p \in Procs : UpdLoad(p)
  \/ \E p \in Procs : UpdSave(p)
  \/ \E p \in Procs : UpdDone(p)
  \/ ClearCache
  \/ \E a \in TmAcctIds : ClearCacheOne(a)
  \/ Tick

SpecTM == InitTM /\ [][NextTM]_vars

\* ------------------------------------------------------- the dispatcher
GenProcs == {"p1"}
\* the token endpoint hands the dispatcher's requests one-hour tokens
LongExpiresInMs == {3600000}
Families == {"standard", "antigravity"}
AccountLists == {<< >>, <<"a1", "a2">>}
ProjectMaps ==
  {[a \in AcctIds |-> TRUE],
   [a \in AcctIds |-> a = "a2"],
   [a \in AcctIds |-> FALSE]}

Init ==
  /\ now = 0
  /\ pc = [p \in Procs |-> "idle"]
  /\ op = [p \in Procs |-> "none"]
  /\ tmAcct = [p \in Procs |-> NoAcct]
  /\ tmResult = [p \in Procs |-> NoResult]
  /\ waitOn = [p \in Procs |-> NoProc]
  /\ loadSnap = [p \in Procs |-> NoStorage]
  /\ newTok = [p \in Procs |-> NoEntry]
  /\ joined = [p \in Procs |-> NoProc]
  /\ arrived = [p \in Procs |-> NoProc]
  /\ cohort = [a \in AcctIds |-> FALSE]
  /\ mgrAccounts \in AccountLists
  /\ hasProject \in ProjectMaps
  /\ DirLoaded
  /\ file \in [AcctIds -> InitialRecords \cup {Absent}]
  /\ \A a \in AcctIds : file[a].present <=> a \in Range(mgrAccounts)
  /\ \A a \in AcctIds : file[a].accessToken \in {0, AcctNo(a)}
  /\ file["a2"] \in {NoToken, Absent}
  /\ mgrData = file
  /\ mgrLimited = [a \in AcctIds |-> FALSE]
  /\ mgrSaves = 0
  /\ tokenCache = [a \in AcctIds |-> NoEntry]
  /\ refreshPromises = [a \in AcctIds |-> NoProc]
  \* the token manager has not read the file yet, or read it before the
  \* last account was added to the directory
  /\ storageCache \in {NoStorage, Loaded([file EXCEPT !["a2"] = Absent])}
  /\ refreshCalls = [a \in AcctIds |-> 0]
  /\ issued = 0
  /\ rateLimits = [a \in AcctIds |-> NoMark]
  /\ currentIndex = 0
  /\ usage = [a \in AcctIds |-> 0]
  \* the first account of the directory has used up its quota
  /\ quotas = [a \in AcctIds |->
                 IF a = "a1" /\ a \in Range(mgrAccounts)
                 THEN QuotaRecord(1, 1) ELSE NoQuota]
  /\ rq = [p \in Procs |-> IdleRq]
  /\ rot = NoRot

RequestStep(p) ==
  \/ \E fam \in Families : StartGenerate(p, fam)
  \/ AgSkip(p)
  \/ OnToken(p)
  \/ DelayDone(p)
  \/ \E resp \in StdResponses : StdResponse(p, resp)
  \/ \E resp \in AgResponses : AgResponse(p, resp)
  \/ StorageRead(p)
  \/ GaLoadDone(p)
  \/ \E e \in LongExpiresInMs : TokenOk(p, e)
  \/ TokenFail(p)
  \/ UpdLoad(p)
  \/ UpdSave(p)
  \/ UpdDone(p)

Next ==
  \/ \E p \in GenProcs : RequestStep(p)
  \/ Tick

Spec == Init /\ [][Next]_vars

\* every step of a request is eventually taken: the event loop runs pending
\* continuations, every fetch settles and every delay elapses
FairSpec == Spec /\ \A p \in GenProcs : WF_vars(RequestStep(p))

\* ------------------------------------------------- the rotator on its own
\* an unexpired mark
Limited(rl, a, t) == rl[a] # NoMark /\ t < rl[a]

\* isRateLimited: the answer and the marks afterwards
isRateLimited(rl, a, t) ==
  IF rl[a] = NoMark THEN [answer |-> FALSE, rl |-> rl]
  ELSE IF IsMarkExpired(t, rl[a])
       THEN [answer |-> FALSE, rl |-> [rl EXCEPT ![a] = NoMark]]
       ELSE [answer |-> TRUE, rl |-> rl]

\* clearRateLimit: the entry is deleted; updateAccountStatus(a, "ready") only
\* if there was one
clearRateLimit_all(rl, a) == [b \in AcctIds |-> NoMark]
clearRateLimit(rl, a) == [rl EXCEPT ![a] = NoMark]
StatusAfterClear(lim, rl, a) ==
  IF rl[a] # NoMark /\ a \in Range(mgrAccounts)
  THEN [lim EXCEPT ![a] = FALSE] ELSE lim

\* the successive accounts returned while no account was limited, the last
\* Len(mgrAccounts) + 1 of them
PushPick(picks, a) ==
  LET q == Append(picks, a) IN
  IF Len(q) > Len(mgrAccounts) + 1 THEN Tail(q) ELSE q

MarkDurations == {TickMs, DEFAULT_RATE_LIMIT_MS}

\* AccountRotator.getNextAccount()
RotNext_lostAdvance ==
  LET g == getNextAccount(rateLimits, currentIndex, now)
      clean == \A a \in Range(mgrAccounts) : ~Limited(rateLimits, a, now)
  IN /\ rateLimits' = g.rl
     /\ currentIndex' = currentIndex
     /\ rot' = [kind |-> "next", ok |-> g.ok, account |-> g.account,
                retryAfterMs |-> g.retryAfterMs, answer |-> {},
                cleaned |-> {a \in AcctIds : rateLimits[a] # g.rl[a]},
                prev |-> IF g.ok THEN g.account ELSE rot.prev,
                picks |-> IF g.ok /\ clean THEN PushPick(rot.picks, g.account)
                          ELSE <<>>]
     /\ UNCHANGED <<now, tmVars, callVars, mgrAccounts, hasProject, dirVars, mgrLimited,
                    mgrData, mgrSaves, usage, quotas, rq>>
RotNext ==
  LET g == getNextAccount(rateLimits, currentIndex, now)
      clean == \A a \in Range(mgrAccounts) : ~Limited(rateLimits, a, now)
  IN /\ rateLimits' = g.rl
     /\ currentIndex' = g.idx
     /\ rot' = [kind |-> "next", ok |-> g.ok, account |-> g.account,
                retryAfterMs |-> g.retryAfterMs, answer |-> {},
                cleaned |-> {a \in AcctIds : rateLimits[a] # g.rl[a]},
                prev |-> IF g.ok THEN g.account ELSE rot.prev,
                picks |-> IF g.ok /\ clean THEN PushPick(rot.picks, g.account)
                          ELSE <<>>]
     /\ UNCHANGED <<now, tmVars, callVars, mgrAccounts, hasProject, dirVars, mgrLimited,
                    mgrData, mgrSaves, usage, quotas, rq>>

\* AccountRotator.markRateLimited(a, ms)
RotMark(a, ms) ==
  /\ rateLimits' = markRateLimited(rateLimits, a, ms, now)
  /\ mgrLimited' = StatusAfterMark(mgrLimited, a)
  /\ mgrSaves' = SavesAfterMark(mgrSaves, a)
  /\ rot' = [rot EXCEPT !.kind = "mark", !.ok = TRUE, !.account = a,
                        !.retryAfterMs = 0, !.answer = {}, !.cleaned = {},
                        !.picks = <<>>]
  /\ UNCHANGED <<now, tmVars, callVars, mgrAccounts, hasProject, dirVars, mgrData,
                 currentIndex, usage, quotas, rq>>

\* AccountRotator.clearRateLimit(a)
RotClear(a) ==
  /\ rateLimits' = clearRateLimit(rateLimits, a)
  /\ mgrLimited' = StatusAfterClear(mgrLimited, rateLimits, a)
  /\ mgrSaves' = IF rateLimits[a] # NoMark THEN SavesAfterMark(mgrSaves, a)
                 ELSE mgrSaves
  /\ rot' = [rot EXCEPT !.kind = "clear", !.ok = TRUE, !.account = a,
                        !.retryAfterMs = 0, !.answer = {}, !.cleaned = {}]
  /\ UNCHANGED <<now, tmVars, callVars, mgrAccounts, hasProject, dirVars, mgrData,
                 currentIndex, usage, quotas, rq>>

\* AccountRotator.isRateLimited(a)
RotIsLimited(a) ==
  LET x == isRateLimited(rateLimits, a, now) IN
  /\ rateLimits' = x.rl
  /\ rot' = [rot EXCEPT !.kind = "isLimited", !.ok = TRUE, !.account = a,
                        !.retryAfterMs = 0,
                        !.answer = IF x.answer THEN {a} ELSE {},
                        !.cleaned = {b \in AcctIds : rateLimits[b] # x.rl[b]}]
  /\ UNCHANGED <<now, tmVars, callVars, mgrAccounts, hasProject, dirVars, mgrLimited,
                 mgrData, mgrSaves, currentIndex, usage, quotas, rq>>

\* AccountRotator.getAvailableAccounts()
RotAvailable ==
  LET rl2 == CleanLimits(rateLimits, now) IN
  /\ rateLimits' = rl2
  /\ rot' = [rot EXCEPT !.kind = "available", !.ok = TRUE, !.account = NoAcct,
                        !.retryAfterMs = 0,
                        !.answer = getAvailableAccounts(rateLimits, now),
                        !.cleaned = {b \in AcctIds : rateLimits[b] # rl2[b]}]
  /\ UNCHANGED <<now, tmVars, callVars, mgrAccounts, hasProject, dirVars, mgrLimited,
                 mgrData, mgrSaves, currentIndex, usage, quotas, rq>>

\* AccountManager.removeAccount(a): the rotator is not told
RotRemove(a) ==
  /\ a \in Range(mgrAccounts)
  /\ mgrAccounts' = SelectSeq(mgrAccounts, LAMBDA x : x # a)
  /\ mgrSaves' = SavesAfterMark(mgrSaves, a)
  /\ mgrActive' = activeAfterRemove(mgrActive, mgrAccounts', a)
  /\ dirWrites' = dirWrites \cup {[accounts |-> mgrAccounts', active |-> mgrActive']}
  /\ rot' = [rot EXCEPT !.kind = "other", !.ok = FALSE, !.account = NoAcct,
                        !.retryAfterMs = 0, !.answer = {}, !.cleaned = {},
                        !.prev = NoAcct, !.picks = <<>>]
  /\ UNCHANGED <<now, tmVars, callVars, hasProject, mgrEmail, mgrInitialized,
                 dirFile, fileActive, addCall, mgrLimited, mgrData,
                 rateLimits, currentIndex, usage, quotas, rq>>

\* the account the user removes with auth_remove
RemovedIds == {"a1"}

InitRot ==
  /\ now = 0
  /\ pc = [p \in Procs |-> "idle"]
  /\ op = [p \in Procs |-> "none"]
  /\ tmAcct = [p \in Procs |-> NoAcct]
  /\ tmResult = [p \in Procs |-> NoResult]
  /\ waitOn = [p \in Procs |-> NoProc]
  /\ loadSnap = [p \in Procs |-> NoStorage]
  /\ newTok = [p \in Procs |-> NoEntry]
  /\ joined = [p \in Procs |-> NoProc]
  /\ arrived = [p \in Procs |-> NoProc]
  /\ cohort = [a \in AcctIds |-> FALSE]
  /\ tokenCache = [a \in AcctIds |-> NoEntry]
  /\ refreshPromises = [a \in AcctIds |-> NoProc]
  /\ storageCache = NoStorage
  /\ file = [a \in AcctIds |-> NoToken]
  /\ refreshCalls = [a \in AcctIds |-> 0]
  /\ issued = 0
  /\ mgrAccounts = <<"a1", "a2", "a3">>
  /\ hasProject = [a \in AcctIds |-> TRUE]
  /\ DirLoaded
  /\ mgrLimited = [a \in AcctIds |-> FALSE]
  /\ mgrData = file
  /\ mgrSaves = 0
  /\ rateLimits = [a \in AcctIds |-> NoMark]
  /\ currentIndex = 0
  /\ usage = [a \in AcctIds |-> 0]
  /\ quotas = [a \in AcctIds |-> NoQuota]
  /\ rq = [p \in Procs |-> IdleRq]
  /\ rot = NoRot

NextRot ==
  \/ RotNext
  \/ \E a \in AcctIds, ms \in MarkDurations : RotMark(a, ms)
  \/ \E a \in AcctIds : RotClear(a)
  \/ \E a \in AcctIds : RotIsLimited(a)
  \/ RotAvailable
  \/ \E a \in RemovedIds : RotRemove(a)
  \/ Tick

SpecRot == InitRot /\ [][NextRot]_vars

\* ------------------------------------------- the quota tracker on its own
\* the used and limit values given to updateQuota
QuotaUsed == 0..2
QuotaLimits == 0..2

QFrame == UNCHANGED <<now, tmVars, callVars, mgrAccounts, hasProject, dirVars, mgrLimited,
                      mgrData, mgrSaves, rateLimits, currentIndex, usage, rq, rot>>

\* QuotaTracker.updateQuota(a, used, limit)
QUpdate(a, used, limit) ==
  /\ quotas' = updateQuota(quotas, a, used, limit)
  /\ QFrame

\* QuotaTracker.incrementUsage(a)
QIncrement(a) ==
  /\ quotas[a].used < MaxUsed
  /\ quotas' = incrementUsed(quotas, a)
  /\ QFrame

\* QuotaTracker.resetQuota(a)
QReset(a) ==
  /\ quotas' = resetQuota(quotas, a)
  /\ QFrame

InitQuota == InitRot

NextQuota ==
  \/ \E a \in AcctIds, used \in QuotaUsed, limit \in QuotaLimits :
       QUpdate(a, used, limit)
  \/ \E a \in AcctIds : QIncrement(a)
  \/ \E a \in AcctIds : QReset(a)
  \/ \E a \in AcctIds : RotRemove(a)

SpecQuota == InitQuota /\ [][NextQuota]_vars

\* ================================================================ claims
Terminal == {"done", "failed"}

\* C1: for every account id, at most one caller is inside doRefresh (and so
\* at most one token-endpoint call is in flight) at any instant, however many
\* getAccessToken and refreshToken calls overlap.
C1_SingleFlight ==
  \A a \in AcctIds : Cardinality(Initiators(a)) <= 1

C1_Witness ==
  \E p, q \in Procs :
    /\ p # q /\ tmAcct[p] = tmAcct[q]
    /\ pc[p] = "dr_fetch" /\ pc[q] = "rt_wait" /\ waitOn[q] = p

\* C2: when all the calls made for an account are getAccessToken calls that
\* overlap and were issued while neither the cache nor the file held an
\* unexpired token, then once they have all returned exactly one
\* token-endpoint call was made and they all hold the same result.
C2_OneRefreshForAll ==
  \A a \in AcctIds :
    LET C == {q \in Procs : tmAcct[q] = a} IN
    (/\ cohort[a]
     /\ Cardinality(C) >= 2
     /\ \A q \in C : pc[q] = "ga_ret")
    => /\ refreshCalls[a] = 1
       /\ \A q, r \in C : tmResult[q] = tmResult[r]

\* C3: a caller that asks for a token (getAccessToken with no unexpired
\* token to serve it, or refreshToken) while a refresh of the same account is
\* pending ends with the same outcome as the caller that started that
\* refresh: the same token or the same error.
C3_SameOutcome ==
  \A p \in Procs :
    (/\ arrived[p] # NoProc
     /\ pc[p] = "ga_ret" /\ pc[arrived[p]] = "ga_ret")
    => tmResult[p] = tmResult[arrived[p]]

\* C3, the callers that reach refreshToken while the entry of the account is
\* in refreshPromises: they return together with the initiator and with its
\* outcome.
C3_AttachedSameOutcome ==
  \A p \in Procs :
    (joined[p] # NoProc /\ pc[p] = "ga_ret")
    => /\ pc[joined[p]] = "ga_ret"
       /\ tmResult[p] = tmResult[joined[p]]

C3_AttachedWitness ==
  \E p \in Procs :
    /\ joined[p] # NoProc /\ pc[p] = "ga_ret" /\ tmResult[p].ok
    /\ tmResult[joined[p]] = tmResult[p]

\* C4: a step in which the dispatcher marks an account rate-limited leaves
\* networkRetryCount as it was and starts no backoff delay.
C4_MarkKeepsBudget ==
  [][\A p \in Procs :
       (rq'[p].markFlip # rq[p].markFlip)
       => /\ rq'[p].networkRetryCount = rq[p].networkRetryCount
          /\ rq'[p].delays = rq[p].delays
          /\ pc'[p] # "backoff"]_vars

\* C5: in the Antigravity family an account is marked rate-limited in a step
\* if and only if that step ends an attempt in which every base URL answered
\* 429; and a request that completes after some base URL answered 429 in the
\* same attempt returns the text without any mark being set.
C5_MarkIffAll429 ==
  [][\A p \in Procs :
       (rq[p].family = "antigravity") =>
         /\ (rq'[p].markFlip # rq[p].markFlip)
              <=> /\ pc[p] = "ag_fetch"
                  /\ rq[p].epIdx = Len(ANTIGRAVITY_API_BASE_URLS)
                  /\ pc'[p] \in {"backoff", "failed"}
                  /\ rq'[p].all429
         /\ (pc[p] = "ag_fetch" /\ rq[p].seen429 /\ pc'[p] = "done")
              => /\ rq'[p].text # <<>>
                 /\ rateLimits' = rateLimits
                 /\ rq'[p].markFlip = rq[p].markFlip]_vars

C5_Witness ==
  \E p \in Procs :
    /\ rq[p].family = "antigravity" /\ pc[p] = "done"
    /\ rq[p].seen429 /\ rq[p].text # <<>>
    /\ rateLimits[rq[p].account] = NoMark

\* C6: a request all of whose upstream answers were transient failures
\* (fetch rejected, or 5xx) fails after exactly MAX_RETRIES + 1 = 4 attempts
\* with an ApiError that has a last failure to report.
C6_FourAttempts ==
  \A p \in Procs :
    (pc[p] = "failed" /\ rq[p].onlyTransient /\ rq[p].attempts >= 1)
    => /\ rq[p].attempts = 4
       /\ rq[p].error.kind = "ApiError"
       /\ rq[p].lastError # "none"

C6_Witness ==
  \E p \in Procs :
    /\ pc[p] = "failed" /\ rq[p].onlyTransient /\ rq[p].attempts = 4
    /\ rq[p].error.kind = "ApiError"

\* C7: the k-th delay a request waits is 1000 * 2^(k-1) ms: the delays are
\* 1000, 2000, 4000 in that order, and a request that has used up its budget
\* has waited exactly these three.
C7_Backoff ==
  \A p \in Procs :
    LET d == rq[p].delays IN
    /\ Len(d) <= 3
    /\ \A k \in 1..Len(d) : d[k] = <<1000, 2000, 4000>>[k]
    /\ (rq[p].networkRetryCount > 3) => (d = <<1000, 2000, 4000>>)

C7_Witness ==
  \E p \in Procs :
    /\ pc[p] = "failed" /\ rq[p].networkRetryCount = 4
    /\ rq[p].delays = <<1000, 2000, 4000>>

\* C8: when getAccessToken fails for the selected account, the request fails
\* at once with that AuthenticationError.
C8_AuthSurfaced ==
  [][\A p \in Procs :
       (/\ op[p] = "generate" /\ pc[p] = "ga_ret" /\ ~tmResult[p].ok
        /\ pc'[p] # pc[p])
       => /\ pc'[p] = "failed"
          /\ rq'[p].error.kind = "AuthenticationError"]_vars

\* C9: every generate request that has started eventually completes or fails.
C9_Terminates ==
  \A p \in GenProcs : (pc[p] # "idle") ~> (pc[p] \in Terminal)

\* C10: a request fails with a RateLimitError only in a step after which
\* every account of the directory carries an unexpired mark, and the error
\* carries the time until the earliest of them expires (0 for an empty
\* directory); so a 429 is not surfaced while another account is available.
C10_OnlyWhenAllLimited ==
  [][\A p \in Procs :
       (/\ pc[p] # "failed" /\ pc'[p] = "failed"
        /\ rq'[p].error.kind = "RateLimitError")
       => LET D == Range(mgrAccounts) IN
          /\ \A a \in D : rateLimits'[a] # NoMark /\ now < rateLimits'[a]
          /\ rq'[p].error.retryAfterMs =
               IF D = {} THEN 0
               ELSE SetMin({rateLimits'[a] : a \in D}) - now]_vars

C10_Witness ==
  \E p \in Procs :
    /\ pc[p] = "failed" /\ rq[p].error.kind = "RateLimitError"
    /\ rq[p].error.retryAfterMs > 0
    /\ rq[p].lastMark.account # NoAcct
    /\ Len(mgrAccounts) = 2

\* the request of p fails in this step with an ApiError, its retry count,
\* its delays and the marks untouched
FailsAtOnce(p) ==
  /\ pc'[p] = "failed"
  /\ rq'[p].error.kind = "ApiError"
  /\ rq'[p].networkRetryCount = rq[p].networkRetryCount
  /\ rq'[p].delays = rq[p].delays
  /\ rq'[p].markFlip = rq[p].markFlip
  /\ rateLimits' = rateLimits

\* C11: a step that handles a 4xx response other than 429 (400 in the
\* standard family; 400 or 404 from an Antigravity base URL) fails the request
\* at once with an ApiError: no retry is counted, no delay is started, no
\* account is marked and no further upstream call follows.
C11_FatalOn4xx ==
  [][\A p \in Procs :
       /\ \A resp \in StdResponses :
            (resp.status = 400 /\ StdResponse(p, resp)) => FailsAtOnce(p)
       /\ \A resp \in AgResponses :
            (resp.status \in {400, 404} /\ AgResponse(p, resp)) => FailsAtOnce(p)]_vars

\* a successful response without candidates, without content parts or
\* without any non-empty text
NoText(resp) ==
  /\ resp.status = 200
  /\ \/ resp.body \in {"nocandidates", "noparts"}
     \/ /\ resp.body \in {"parts", "sse"}
        /\ \A i \in 1..Len(resp.parts) : resp.parts[i] = <<>>

\* C12: a step that handles a successful response that is empty (no
\* candidates, no content parts, no non-empty text) fails the request at once
\* with an ApiError: no retry is counted, no delay is started and no account
\* is marked.
C12_FatalOnEmpty ==
  [][\A p \in GenProcs :
       \/ FailsAtOnce(p)
       \/ /\ pc[p] = "std_fetch" =>
               \A resp \in StdResponses :
                 ~(NoText(resp) /\ StdResponse(p, resp))
          /\ pc[p] = "ag_fetch" =>
               \A resp \in AgResponses :
                 ~(NoText(resp) /\ AgResponse(p, resp))]_vars

C12_Witness ==
  \E p \in Procs :
    /\ pc[p] = "failed" /\ rq[p].error.message = "Empty response"
    /\ rq[p].networkRetryCount = 0 /\ rq[p].delays = <<>>
    /\ \A a \in AcctIds : rateLimits[a] = NoMark

\* position of a directory account in the list (1-based), the account k
\* slots after slot i (0-based) with wrap-around, and an expired mark
Pos(a) == CHOOSE i \in 1..Len(mgrAccounts) : mgrAccounts[i] = a
SlotAfter(i, k) == mgrAccounts[((i + k) % Len(mgrAccounts)) + 1]
Expired(rl, a, t) == rl[a] # NoMark /\ t >= rl[a]

\* C13: getNextAccount returns the first account, scanning the list from the
\* cursor with wrap-around, whose mark is absent or expired: the account
\* returned is not limited, every account passed over is limited, and the
\* call fails only when every account of the list is limited.
C13_FirstUnlimited ==
  [][RotNext =>
       LET n == Len(mgrAccounts)
           start == IF n = 0 THEN 0 ELSE currentIndex % n
       IN IF rot'.ok
          THEN \E k \in 0..(n - 1) :
                 /\ rot'.account = SlotAfter(start, k)
                 /\ ~Limited(rateLimits, SlotAfter(start, k), now)
                 /\ \A j \in 0..(k - 1) :
                      Limited(rateLimits, SlotAfter(start, j), now)
          ELSE \A a \in Range(mgrAccounts) : Limited(rateLimits, a, now)]_vars

C13_Witness ==
  /\ rot.kind = "next" /\ rot.ok /\ Len(mgrAccounts) = 3
  /\ currentIndex = Pos(rot.account) % 3
  /\ Limited(rateLimits, SlotAfter(Pos(rot.account) - 1, 2), now)

\* C14: while no account is limited, any Len(accounts) consecutive
\* getNextAccount calls return pairwise different accounts, and the call after
\* them returns the same account as the first of them.
C14_RoundRobin ==
  LET n == Len(mgrAccounts)
      q == rot.picks
  IN \A i, j \in 1..Len(q) :
       (i < j) => /\ (j - i < n) => (q[i] # q[j])
                  /\ (j - i = n) => (q[i] = q[j])

C14_Witness ==
  /\ Len(mgrAccounts) = 3 /\ Len(rot.picks) = 4
  /\ rot.picks[4] = rot.picks[1]

\* C15: a limited account is never returned, and the rotation order is kept:
\* each getNextAccount returns the first account after the one returned
\* before it, in list order with wrap-around, that is not limited at that
\* time; so an account whose mark was cleared or has expired comes back right
\* at its place in the order.
C15_KeepsPlace ==
  [][RotNext =>
       /\ rot'.ok => ~Limited(rateLimits, rot'.account, now)
       /\ (rot'.ok /\ rot.prev # NoAcct) =>
            \E k \in 0..(Len(mgrAccounts) - 1) :
              /\ rot'.account = SlotAfter(Pos(rot.prev), k)
              /\ \A j \in 0..(k - 1) :
                   Limited(rateLimits, SlotAfter(Pos(rot.prev), j), now)]_vars

C15_Witness ==
  /\ rot.kind = "next" /\ rot.ok /\ Len(mgrAccounts) = 3
  /\ rot.account \in rot.cleaned
  /\ \E a \in Range(mgrAccounts) : Limited(rateLimits, a, now)

\* C16: when getNextAccount fails, the retry hint of the error is the least
\* (availableAt - now) over the limited accounts (of the list, or of all the
\* ids that carry an unexpired mark), and 0 when the list is empty.
C16_EarliestRetry ==
  [][(RotNext /\ ~rot'.ok) =>
       LET D == Range(mgrAccounts)
           L == {a \in AcctIds : Limited(rateLimits, a, now)}
       IN IF D = {} THEN rot'.retryAfterMs = 0
          ELSE \/ rot'.retryAfterMs = SetMin({rateLimits[a] - now : a \in D})
               \/ rot'.retryAfterMs = SetMin({rateLimits[a] - now : a \in L})]_vars

MarksAccount(p) == rq'[p].markFlip # rq[p].markFlip

\* the durations a Retry-After header can give
HeaderDurations == {RetryAfterMs(ra) : ra \in RetryAfterVals \ {-1}}

\* C18: whenever the dispatcher marks an account after a 429, the duration
\* given to markRateLimited is Retry-After * 1000 ms when the header is
\* present and 60000 ms when it is absent. In the Antigravity family, where
\* three answers precede the mark, any of their header values is accepted
\* when all three carried the header.
C18_MarkDuration ==
  [][\A p \in Procs :
       /\ \A resp \in StdResponses :
            (resp.status = 429 /\ StdResponse(p, resp) /\ MarksAccount(p))
            => rq'[p].lastMark.ms = RetryAfterMs(resp.ra)
       /\ \A resp \in AgResponses :
            (resp.status = 429 /\ AgResponse(p, resp) /\ MarksAccount(p))
            => IF rq[p].allRetryAfter /\ resp.ra # -1
               THEN rq'[p].lastMark.ms \in HeaderDurations
               ELSE rq'[p].lastMark.ms = DEFAULT_RATE_LIMIT_MS]_vars

\* C19: a request that succeeded has called incrementUsage exactly once, for
\* the account whose token was sent with the call that succeeded, and for no
\* other account; a request that has not succeeded has called it for none.
C19_UsageOnce ==
  \A p \in GenProcs :
    usage = [a \in AcctIds |->
               IF pc[p] = "done" /\ a = rq[p].account THEN 1 ELSE 0]

C19_Witness ==
  \E p \in GenProcs :
    /\ pc[p] = "done" /\ usage[rq[p].account] = 1
    /\ rq[p].networkRetryCount >= 1 /\ rq[p].lastMark.account \notin {NoAcct, rq[p].account}

\* the texts of the parts that have one, in order, joined up to part n
RECURSIVE ConcatTexts(_, _)
ConcatTexts(parts, n) ==
  IF n = 0 THEN <<>> ELSE ConcatTexts(parts, n - 1) \o parts[n]

\* C20: on success the text returned is the concatenation, in order, of all
\* the non-empty text parts of the first candidate of the answer.
C20_AllParts ==
  \A p \in GenProcs :
    pc[p] = "done" => rq[p].text = ConcatTexts(rq[p].parts, Len(rq[p].parts))

\* C21: refreshes of different accounts are independent. A caller waits on a
\* pending refresh only if that refresh is for its own account; a refresh
\* pending for another account does not keep a caller from starting its own;
\* and a token returned to a caller is one issued or stored for the account
\* it asked about.
C21_Independent ==
  /\ \A q \in Procs :
       pc[q] = "rt_wait" =>
         /\ waitOn[q] \in Initiators(tmAcct[q])
         /\ refreshPromises[tmAcct[q]] = waitOn[q]
  /\ \A q \in Procs :
       (pc[q] = "ga_ret" /\ tmResult[q].ok) =>
         TokenOwner(tmResult[q].token) = tmAcct[q]
  /\ \A a \in AcctIds :
       refreshPromises[a] # NoProc => tmAcct[refreshPromises[a]] = a

\* two token-endpoint calls, one per account, are in flight at once
C21_Witness ==
  \E p, q \in Procs :
    /\ pc[p] = "dr_fetch" /\ pc[q] = "dr_fetch"
    /\ tmAcct[p] = "a1" /\ tmAcct[q] = "a2"
    /\ refreshPromises["a1"] = p /\ refreshPromises["a2"] = q

\* more than five minutes are left until the instant e
Fresh(e) == e - now > 5 * 60 * 1000

\* the caller's getAccessToken(a) has returned token t without any refresh
ServedWith(p, t) ==
  /\ pc'[p] = "ga_ret" /\ tmResult'[p] = Ok(t)
  /\ refreshCalls' = refreshCalls /\ refreshPromises' = refreshPromises

\* the caller has entered refreshToken: it awaits a pending refresh or has
\* started one
EntersRefresh(p) == pc'[p] \in {"rt_wait", "dr_load", "dr_fetch"}

\* getAccessToken looks at the account record r after a token-cache miss
StoredDecision(p, r) ==
  r.present =>
    IF r.accessToken # 0 /\ Fresh(r.expiresAt)
    THEN ServedWith(p, r.accessToken)
    ELSE EntersRefresh(p)

\* C22: a token is used exactly when more than five minutes are left until
\* its expiry, and treated as expired (now + 5 min >= expiry) otherwise:
\* getAccessToken returns a cached or stored token of the first kind without
\* a refresh, and goes to refreshToken when the only tokens it finds are of
\* the second kind (a token that expires in 4 minutes is refreshed, one that
\* expires in 10 minutes is not).
C22_Buffer ==
  [][\A p \in Procs :
       /\ \A a \in TmAcctIds :
            StartGetAccessToken(p, a) =>
              LET c == tokenCache[a] IN
              IF c # NoEntry /\ Fresh(c.expiresAt)
              THEN ServedWith(p, c.accessToken)
              ELSE storageCache.loaded =>
                     StoredDecision(p, storageCache.accounts[a])
       /\ GaLoadDone(p) => StoredDecision(p, loadSnap[p].accounts[tmAcct[p]])]_vars

\* a cached token with four minutes left, and the caller that asked for it at
\* the token endpoint
C22_Witness ==
  \E p \in Procs :
    /\ op[p] = "token" /\ pc[p] = "dr_fetch"
    /\ tokenCache[tmAcct[p]] # NoEntry
    /\ tokenCache[tmAcct[p]].expiresAt - now = 4 * 60 * 1000

\* C23: when a refresh returns successfully, the new token is the caller's
\* result, it is in the token cache of the account, and the persisted record
\* of the account holds it with its expiry.
C23_RefreshPersists ==
  [][\A p \in Procs :
       UpdDone(p) =>
         LET a == tmAcct[p] IN
         /\ tmResult'[p] = Ok(newTok[p].accessToken)
         /\ tokenCache'[a] = newTok[p]
         /\ file'[a].accessToken = newTok[p].accessToken
         /\ file'[a].expiresAt = newTok[p].expiresAt]_vars

\* the callers that the refresh promise of p settles: p and those awaiting it
FlightOf(p) == {p} \cup {q \in Procs : pc[q] = "rt_wait" /\ waitOn[q] = p}

\* C24: when the token-endpoint call of a refresh fails, by a rejection of the
\* endpoint or by a network failure, every caller of that refresh gets an
\* AuthenticationError that carries the upstream error or the failure's
\* message, and no error of another class.
C24_AuthErrorOnly ==
  [][\A p \in Procs :
       TokenFail(p) =>
         \A q \in FlightOf(p) :
           /\ pc'[q] = "ga_ret" /\ ~tmResult'[q].ok
           /\ tmResult'[q].kind = "AuthenticationError"
           /\ tmResult'[q].err \in {"upstream", "network"}]_vars

C24_Witness ==
  \E p, q \in Procs :
    /\ p # q /\ pc[p] = "ga_ret" /\ pc[q] = "ga_ret"
    /\ op[p] = "refresh" /\ op[q] = "token" /\ joined[q] = p
    /\ tmResult[p] = tmResult[q]
    /\ tmResult[p].kind = "AuthenticationError" /\ tmResult[p].err = "network"

\* the quota record of a shows its quota used up
OverQuota(a) == quotas[a].has /\ quotas[a].used >= quotas[a].limit

\* C25: quota records block nothing. Whenever the dispatcher selects an
\* account, it gets the first account from the cursor that has no unexpired
\* mark, whatever the quota records say, and a request is refused as
\* all-accounts-limited only when every account of the directory has an
\* unexpired mark.
C25_QuotaNeverBlocks ==
  [][\A p \in GenProcs :
       /\ (rq'[p].attempts # rq[p].attempts) =>
            \E k \in 0..(Len(mgrAccounts) - 1) :
              /\ rq'[p].account = SlotAfter(currentIndex, k)
              /\ ~Limited(rateLimits', SlotAfter(currentIndex, k), now)
              /\ \A j \in 0..(k - 1) :
                   Limited(rateLimits', SlotAfter(currentIndex, j), now)
       /\ (pc[p] # "failed" /\ pc'[p] = "failed"
           /\ rq'[p].error.kind = "RateLimitError") =>
            \A a \in Range(mgrAccounts) : Limited(rateLimits', a, now)]_vars

\* the upstream call is in flight with the token of an account whose quota is
\* used up, selected for the second time
C25_Witness ==
  \E p \in GenProcs :
    /\ pc[p] = "std_fetch" /\ OverQuota(rq[p].account)
    /\ rq[p].attempts >= 3 /\ rateLimits[rq[p].account] = NoMark

\* what the record of a adds to the total: limit - used if a is in the
\* directory and used is below limit, nothing otherwise
Contribution(a) ==
  IF a \in Range(mgrAccounts) /\ quotas[a].has /\ quotas[a].used < quotas[a].limit
  THEN quotas[a].limit - quotas[a].used
  ELSE 0

\* C26: getTotalAvailable is the sum of limit - used over the records of
\* accounts that are in the directory and have used < limit; records with
\* used >= limit (those with limit 0 among them) and records of accounts that
\* are no longer in the directory add nothing.
C26_TotalAvailable ==
  /\ getTotalAvailable(quotas) =
       Contribution("a1") + Contribution("a2") + Contribution("a3")
  /\ \A a \in AcctIds :
       (quotas[a].has /\ quotas[a].limit = 0) => Contribution(a) = 0

C26_Witness ==
  /\ "a1" \notin Range(mgrAccounts) /\ quotas["a1"] = QuotaRecord(0, 2)
  /\ quotas["a2"] = QuotaRecord(3, 2)
  /\ quotas["a3"] = QuotaRecord(1, 2)
  /\ getTotalAvailable(quotas) = 1

\* C27: incrementUsage(a) changes no quota record when a has no record or
\* when a is not in the directory.
C27_IncrementNoOp ==
  [][\A a \in AcctIds :
       (QIncrement(a) /\ (~quotas[a].has \/ a \notin Range(mgrAccounts)))
       => quotas' = quotas]_vars

\* -------------------------------------- the account directory on its own
DirFrame ==
  UNCHANGED <<now, tmVars, callVars, hasProject, mgrLimited, mgrData, mgrSaves,
              rateLimits, currentIndex, usage, quotas, rq, rot>>

\* addAccount after ensureInitialized, on the list accts that this.data holds
\* by then: find, then throw, or push the new account and call saveData, whose
\* content is fixed by the schema parse at the start of storage.save
AddCheck(p, accts, act, e) ==
  IF existingAccount(accts, mgrEmail, e) # {}
  THEN /\ mgrAccounts' = accts
       /\ mgrActive' = act
       /\ mgrEmail' = mgrEmail
       /\ addCall' = [addCall EXCEPT ![p] =
            [pc |-> "idle", email |-> e, content |-> <<>>, active |-> NoAcct,
             out |-> "AuthenticationError"]]
  ELSE LET id == randomUUID(mgrEmail) IN
       /\ mgrAccounts' = Append(accts, id)
       /\ mgrActive' = IF Len(Append(accts, id)) = 1 THEN id ELSE act
       /\ mgrEmail' = [mgrEmail EXCEPT ![id] = e]
       /\ addCall' = [addCall EXCEPT ![p] =
            [pc |-> "ad_save", email |-> e, content |-> Append(accts, id),
             active |-> mgrActive', out |-> "none"]]

\* the calls whose account is still to be made
AddsInFlight == {q \in Procs : addCall[q].pc \in {"ad_load", "ad_loaded"}}

\* addAccount(e) up to its first wait: the load of initialize() when the
\* manager is not initialized, else the save
AddStart(p, e) ==
  /\ addCall[p].pc = "idle"
  /\ Cardinality(UnusedIds(mgrEmail)) > Cardinality(AddsInFlight)
  /\ IF mgrInitialized
     THEN AddCheck(p, mgrAccounts, mgrActive, e)
     ELSE /\ addCall' = [addCall EXCEPT ![p] =
               [pc |-> "ad_load", email |-> e, content |-> <<>>,
                active |-> NoAcct, out |-> "none"]]
          /\ UNCHANGED <<mgrAccounts, mgrEmail, mgrActive>>
  /\ UNCHANGED <<mgrInitialized, dirFile, fileActive, dirWrites>>
  /\ DirFrame

\* storage.load() reads the file
AddLoadRead(p) ==
  /\ addCall[p].pc = "ad_load"
  /\ addCall' = [addCall EXCEPT ![p].pc = "ad_loaded", ![p].content = dirFile,
                                ![p].active = fileActive]
  /\ UNCHANGED <<mgrAccounts, mgrActive, mgrEmail, mgrInitialized, dirFile,
                 fileActive, dirWrites>>
  /\ DirFrame

\* storage.load() fails with something else than a missing file: initialize
\* and addAccount rethrow
AddLoadFail(p) ==
  /\ addCall[p].pc = "ad_load"
  /\ addCall' = [addCall EXCEPT ![p].pc = "idle", ![p].out = "StorageError"]
  /\ UNCHANGED <<mgrAccounts, mgrActive, mgrEmail, mgrInitialized, dirFile,
                 fileActive, dirWrites>>
  /\ DirFrame

\* initialize() resumes: this.data is what was loaded, then addAccount goes on
AddLoadDone(p) ==
  /\ addCall[p].pc = "ad_loaded"
  /\ mgrInitialized' = TRUE
  /\ AddCheck(p, addCall[p].content, addCall[p].active, addCall[p].email)
  /\ UNCHANGED <<dirFile, fileActive, dirWrites>>
  /\ DirFrame

\* the save of addAccount is written, addAccount returns the account
AddSaveDone(p) ==
  /\ addCall[p].pc = "ad_save"
  /\ dirFile' = addCall[p].content
  /\ fileActive' = addCall[p].active
  /\ addCall' = [addCall EXCEPT ![p].pc = "idle", ![p].content = <<>>,
                                ![p].active = NoAcct, ![p].out = "ok"]
  /\ UNCHANGED <<mgrAccounts, mgrActive, mgrEmail, mgrInitialized, dirWrites>>
  /\ DirFrame

\* the save of addAccount fails: addAccount raises, the account stays in the list
AddSaveFail(p) ==
  /\ addCall[p].pc = "ad_save"
  /\ addCall' = [addCall EXCEPT ![p].pc = "idle", ![p].content = <<>>,
                                ![p].active = NoAcct, ![p].out = "StorageError"]
  /\ UNCHANGED <<mgrAccounts, mgrActive, mgrEmail, mgrInitialized, dirFile,
                 fileActive, dirWrites>>
  /\ DirFrame

\* a save that removeAccount or setActiveAccount started is written
DirWrite(s) ==
  /\ s \in dirWrites
  /\ dirFile' = s.accounts
  /\ fileActive' = s.active
  /\ dirWrites' = dirWrites \ {s}
  /\ UNCHANGED <<mgrAccounts, mgrActive, mgrEmail, mgrInitialized, addCall>>
  /\ DirFrame

\* setActiveAccount(a): throws when getAccount finds nothing, else sets the
\* pointer and calls saveData() without awaiting it
setActiveAccount(a) ==
  /\ Cardinality(dirWrites) < MaxSaves
  /\ IF a \in Range(mgrAccounts)
     THEN /\ mgrActive' = a
          /\ dirWrites' = dirWrites \cup {[accounts |-> mgrAccounts, active |-> a]}
     ELSE UNCHANGED <<mgrActive, dirWrites>>
  /\ UNCHANGED <<mgrAccounts, mgrEmail, mgrInitialized, dirFile, fileActive,
                 addCall, mgrSaves>>
  /\ UNCHANGED <<now, tmVars, callVars, hasProject, mgrLimited, mgrData,
                 rateLimits, currentIndex, usage, quotas, rq, rot>>

\* the account the user selects with auth_use
SelectedIds == {"a2"}

\* a new manager over a file that is empty or holds one account
InitDir ==
  /\ now = 0
  /\ pc = [p \in Procs |-> "idle"]
  /\ op = [p \in Procs |-> "none"]
  /\ tmAcct = [p \in Procs |-> NoAcct]
  /\ tmResult = [p \in Procs |-> NoResult]
  /\ waitOn = [p \in Procs |-> NoProc]
  /\ loadSnap = [p \in Procs |-> NoStorage]
  /\ newTok = [p \in Procs |-> NoEntry]
  /\ joined = [p \in Procs |-> NoProc]
  /\ arrived = [p \in Procs |-> NoProc]
  /\ cohort = [a \in AcctIds |-> FALSE]
  /\ tokenCache = [a \in AcctIds |-> NoEntry]
  /\ refreshPromises = [a \in AcctIds |-> NoProc]
  /\ storageCache = NoStorage
  /\ file = [a \in AcctIds |-> NoToken]
  /\ refreshCalls = [a \in AcctIds |-> 0]
  /\ issued = 0
  /\ mgrAccounts = <<>>
  /\ hasProject = [a \in AcctIds |-> TRUE]
  /\ mgrInitialized = FALSE
  /\ dirFile \in {<<>>, <<"a1">>}
  /\ fileActive = firstAccount(dirFile)
  /\ mgrActive = NoAcct
  /\ mgrEmail = [a \in AcctIds |->
                   IF a \in Range(dirFile) THEN "ann@x.io" ELSE NoEmail]
  /\ dirWrites = {}
  /\ addCall = [p \in Procs |-> NoAdd]
  /\ mgrLimited = [a \in AcctIds |-> FALSE]
  /\ mgrData = file
  /\ mgrSaves = 0
  /\ rateLimits = [a \in AcctIds |-> NoMark]
  /\ currentIndex = 0
  /\ usage = [a \in AcctIds |-> 0]
  /\ quotas = [a \in AcctIds |-> NoQuota]
  /\ rq = [p \in Procs |-> IdleRq]
  /\ rot = NoRot

NextDir ==
  \/ \E p \in Procs, e \in Emails : AddStart(p, e)
  \/ \E p \in Procs : AddLoadRead(p)
  \/ \E p \in Procs : AddLoadFail(p)
  \/ \E p \in Procs : AddLoadDone(p)
  \/ \E p \in Procs : AddSaveDone(p)
  \/ \E p \in Procs : AddSaveFail(p)
  \/ \E a \in AcctIds : RotRemove(a)
  \/ \E a \in SelectedIds : setActiveAccount(a)
  \/ \E s \in dirWrites : DirWrite(s)

SpecDir == InitDir /\ [][NextDir]_vars

\* e and f are equal ignoring case
SameIgnoringCase(e, f) ==
  \/ e = f
  \/ {e, f} = {"ann@x.io", "Ann@x.io"}

\* no two accounts of the list have the same email ignoring case
NoDuplicates(accts) ==
  \A i, j \in 1..Len(accts) :
    i # j => accts[i] # accts[j]
             /\ ~SameIgnoringCase(mgrEmail[accts[i]], mgrEmail[accts[j]])

\* the list has an account with email e ignoring case
Taken(accts, e) == \E a \in Range(accts) : SameIgnoringCase(mgrEmail[a], e)

\* the addAccount of p was rejected and the list is accts, the file as before
Rejected(p, accts) ==
  /\ addCall'[p].pc = "idle"
  /\ addCall'[p].out = "AuthenticationError"
  /\ mgrAccounts' = accts
  /\ mgrEmail' = mgrEmail
  /\ dirFile' = dirFile
  /\ dirWrites' = dirWrites

C29_ClearNoOp ==
  [][\A a \in AcctIds :
       (RotClear(a) /\ ~Limited(rateLimits, a, now)) =>
         /\ rot'.kind = "clear" /\ rot'.ok
         /\ currentIndex' = currentIndex
         /\ \A b \in AcctIds :
              /\ Limited(rateLimits', b, now) = Limited(rateLimits, b, now)
              /\ Limited(rateLimits, b, now) => rateLimits'[b] = rateLimits[b]
         /\ rateLimits[a] = NoMark =>
              /\ rateLimits' = rateLimits
              /\ mgrLimited' = mgrLimited
              /\ mgrSaves' = mgrSaves]_vars

\* clearRateLimit has just run on an account with no mark (the manager still
\* shows it limited, which a cleared mark would have reset) while another
\* account is limited and the cursor is not at the start
C29_Witness ==
  /\ rot.kind = "clear"
  /\ rot.account \in Range(mgrAccounts)
  /\ mgrLimited[rot.account]
  /\ currentIndex # 0
  /\ \E b \in AcctIds \ {rot.account} : Limited(rateLimits, b, now)

\* C30: markRateLimited for an id that is not in the account manager's list
\* returns normally and records the mark, the manager is left alone, and from
\* then on the mark of such an id goes away only when it is cleared, replaced
\* by a new mark, or has expired; while it is in force isRateLimited answers
\* true
C30_MarkUnknown ==
  [][\A a \in AcctIds :
       a \notin Range(mgrAccounts) =>
         /\ \A ms \in MarkDurations :
              RotMark(a, ms) =>
                /\ rot'.kind = "mark" /\ rot'.ok
                /\ rateLimits'[a] = now + ms
                /\ mgrLimited' = mgrLimited
                /\ mgrSaves' = mgrSaves
         /\ (Limited(rateLimits, a, now) /\ rateLimits'[a] # rateLimits[a])
              => RotClear(a) \/ \E ms \in MarkDurations : RotMark(a, ms)
         /\ (Limited(rateLimits, a, now) /\ RotIsLimited(a))
              => rot'.answer = {a} /\ rateLimits'[a] = rateLimits[a]]_vars

\* markRateLimited has just run on an account that was removed before, and the
\* mark is in force
C30_Witness ==
  /\ rot.kind = "mark"
  /\ rot.account \notin Range(mgrAccounts)
  /\ Limited(rateLimits, rot.account, now)
  /\ ~mgrLimited[rot.account]

\* C31: an Antigravity request that skips an account without a project id
\* gets past the skipping after finitely many rounds of the loop: it goes on
\* to a token and an upstream call, or ends with an error
C31_SkipsEnd ==
  \A p \in GenProcs : (pc[p] = "ag_skip") ~> (pc[p] # "ag_skip")

\* ------------------------- the token manager and the account manager on
\* ------------------------- one accounts.json
\* the account whose status the rotator changes
StatusIds == {"a1"}

\* AccountManager.updateAccountStatus(a, status): the flag is set in this.data
\* and saveData() is called without being awaited; storage.save fixes the
\* content at its start, and this.data never receives the tokens the token
\* manager stores
MgrUpdateStatus(a, status) ==
  /\ a \in Range(mgrAccounts)
  /\ mgrSaves < MaxSaves
  /\ mgrLimited' = [mgrLimited EXCEPT ![a] = (status = "limited")]
  /\ mgrSaves' = SavesAfterMark(mgrSaves, a)
  /\ UNCHANGED <<now, tmVars, callVars, mgrAccounts, hasProject, dirVars,
                 mgrData, rateLimits, currentIndex, usage, quotas, rq, rot>>

\* the writeFile of a save the account manager started: the file becomes the
\* manager's data
MgrSaveWrite ==
  /\ mgrSaves > 0
  /\ file' = mgrData
  /\ mgrSaves' = mgrSaves - 1
  /\ UNCHANGED <<now, tokenCache, refreshPromises, storageCache, refreshCalls,
                 issued, callVars, mgrAccounts, hasProject, dirVars, mgrLimited,
                 mgrData, rateLimits, currentIndex, usage, quotas, rq, rot>>

NextStore ==
  \/ NextTM
  \/ \E a \in StatusIds, status \in {"limited", "ready"} : MgrUpdateStatus(a, status)
  \/ MgrSaveWrite

SpecStore == InitTM /\ [][NextStore]_vars

\* the file holds for a a token that a completed refresh stored
Refreshed(a) ==
  /\ file[a].accessToken >= TokenFor(a, 0)
  /\ \A p \in Procs : ~(pc[p] = "upd_done" /\ tmAcct[p] = a)

\* C32: once a refresh of an account has completed, the account's record in
\* the file changes only when a refresh of the same account writes the file
C32_TokenKept ==
  [][\A a \in TmAcctIds :
       (Refreshed(a) /\ file'[a] # file[a])
         => \E p \in Procs : tmAcct[p] = a /\ UpdSave(p)]_vars

\* the storage.save calls that have started and not yet written: those of the
\* account manager and those of updateAccountToken
SavesInProgress ==
  mgrSaves + Cardinality({p \in Procs : pc[p] = "upd_save"})

\* C33: the file is written only by a save of the account manager, and at
\* most one save is in progress at any time
C33_DirectoryWrites ==
  /\ [](SavesInProgress <= 1)
  /\ [][file' # file => MgrSaveWrite]_vars

\* C34: the entry of refreshPromises for an account always belongs to a
\* doRefresh that is still running; the step in which a doRefresh ends, with a
\* token or with an error, removes the entry; and a refreshToken that finds no
\* running doRefresh for its account does not wait for anyone: it starts its
\* own doRefresh and, once the account is known, a new call of the token
\* endpoint
C34_EntryCleared ==
  /\ [](\A a \in TmAcctIds :
          refreshPromises[a] # NoProc => refreshPromises[a] \in Initiators(a))
  /\ [][\A p \in Procs, a \in TmAcctIds :
          /\ (pc[p] \in DoRefreshPcs /\ tmAcct[p] = a /\ pc'[p] = "ga_ret")
               => refreshPromises'[a] = NoProc
          /\ (Initiators(a) = {} /\ StartRefresh(p, a))
               => /\ pc'[p] \in {"dr_load", "dr_fetch", "ga_ret"}
                  /\ waitOn'[p] = NoProc
                  /\ pc'[p] # "ga_ret" => refreshPromises'[a] = p
                  /\ pc'[p] = "dr_fetch"
                       => refreshCalls'[a] = Sat(refreshCalls[a])]_vars

\* a refresh of an account has ended with an error, and a later refreshToken
\* for the same account has its own call of the token endpoint under way
C34_Witness ==
  \E p, q \in Procs :
    /\ p # q /\ tmAcct[p] = tmAcct[q]
    /\ pc[q] = "ga_ret" /\ ~tmResult[q].ok /\ tmResult[q].err = "upstream"
    /\ op[p] = "refresh" /\ pc[p] = "dr_fetch"
    /\ refreshPromises[tmAcct[p]] = p
    /\ refreshCalls[tmAcct[p]] = 2

\* the accounts of the directory without a mark in force
Unlimited == {a \in Range(mgrAccounts) : ~Limited(rateLimits, a, now)}

\* C35: two getNextAccount calls with nothing but the passing of time between
\* them, made while at least two accounts are unlimited, return different
\* accounts
C35_DistinctAccounts ==
  [][(/\ rot.kind = "next" /\ rot.ok
      /\ Cardinality(Unlimited) >= 2
      /\ RotNext)
       => rot'.ok /\ rot'.account # rot.account]_vars

\* getNextAccount has returned two different accounts in two calls that
\* followed each other
C35_Witness ==
  /\ rot.kind = "next" /\ rot.ok
  /\ Len(rot.picks) >= 2
  /\ rot.picks[Len(rot.picks)] = rot.account
  /\ rot.picks[Len(rot.picks) - 1] # rot.account

\* the caller returns the token of the record r at once and the token cache
\* holds it from then on
ServedFromRecord(p, a, r) ==
  /\ ServedWith(p, r.accessToken)
  /\ tokenCache' = [tokenCache EXCEPT ![a] =
                      [accessToken |-> r.accessToken, expiresAt |-> r.expiresAt]]

\* getAccessToken after a miss in the token cache, looking at the record r
RecordThenRefresh(p, a, r) ==
  r.present =>
    IF r.accessToken # 0 /\ Fresh(r.expiresAt)
    THEN ServedFromRecord(p, a, r)
    ELSE EntersRefresh(p)

C37_FirstResponseDecides ==
  [][\A p \in GenProcs :
       pc[p] = "ag_fetch" =>
         \A resp \in AgResponses :
           (resp.status \notin {0, 429, 404, 500} /\ AgResponse(p, resp))
             => pc'[p] \in Terminal]_vars

\* C38: when every caller's addAccount has returned an account, the emails of
\* these calls differ even ignoring case, no call is under way and no account
\* was ever removed, the directory holds an account for each of the emails
C38_AllAdded ==
  (/\ rot.kind = "none"
   /\ \A p \in Procs : addCall[p].pc = "idle" /\ addCall[p].out = "ok"
   /\ \A p, q \in Procs :
        p # q => ~SameIgnoringCase(addCall[p].email, addCall[q].email)) =>
    \A p \in Procs :
      \E a \in Range(mgrAccounts) : mgrEmail[a] = addCall[p].email

\* ----------------------------------- the chat / generate_content handlers
MAX_RATE_LIMIT_RETRIES == 3

\* server.ts getCurrentEmail: rotator.getNextAccount() and the email of the
\* account it returns, "unknown" when it throws; with the rotator's marks and
\* cursor afterwards
getCurrentEmail(rl, idx, t) ==
  LET g == getNextAccount(rl, idx, t) IN
  [email |-> IF g.ok THEN mgrEmail[g.account] ELSE "unknown",
   rl |-> g.rl, idx |-> g.idx]

\* handleChat / handleGenerateContent up to the first suspension:
\* "let currentEmail = getCurrentEmail()", then client.generateContent
ToolStart(p, fam) ==
  /\ pc[p] = "idle"
  /\ op' = [op EXCEPT ![p] = "generate"]
  /\ LET e == getCurrentEmail(rateLimits, currentIndex, now) IN
       LoopTopAt(p, [NewRq(fam) EXCEPT !.header = e.email],
                 e.rl, e.idx, mgrLimited, mgrSaves)
  /\ UNCHANGED <<usage, quotas>>
  /\ DFrame

\* the handler's catch of a RateLimitError: retryCount++, and while retries
\* are left rotator.getNextAccount() (which throws out of the handler when
\* every account is limited), getCurrentEmail() and client.generateContent
\* again
ToolRetry(p) ==
  /\ pc[p] = "failed"
  /\ rq[p].error.kind = "RateLimitError"
  /\ rq[p].toolRetry < MAX_RATE_LIMIT_RETRIES
  /\ LET g == getNextAccount(rateLimits, currentIndex, now) IN
       IF ~g.ok
       THEN Stay(p, "threw", [rq[p] EXCEPT !.toolRetry = @ + 1],
                 g.rl, mgrLimited, mgrSaves)
       ELSE LET e == getCurrentEmail(g.rl, g.idx, now) IN
            LoopTopAt(p, [NewRq(rq[p].family) EXCEPT
                            !.header = e.email,
                            !.toolRetry = rq[p].toolRetry + 1],
                      e.rl, e.idx, mgrLimited, mgrSaves)
  /\ UNCHANGED <<op, usage, quotas>>
  /\ DFrame

ToolStep(p) ==
  \/ \E fam \in Families : ToolStart(p, fam)
  \/ ToolRetry(p)
  \/ AgSkip(p)
  \/ OnToken(p)
  \/ DelayDone(p)
  \/ \E resp \in StdResponses : StdResponse(p, resp)
  \/ \E resp \in AgResponses : AgResponse(p, resp)
  \/ StorageRead(p)
  \/ GaLoadDone(p)
  \/ \E e \in LongExpiresInMs : TokenOk(p, e)
  \/ TokenFail(p)
  \/ UpdLoad(p)
  \/ UpdSave(p)
  \/ UpdDone(p)

NextTool ==
  \/ \E p \in GenProcs : ToolStep(p)
  \/ Tick

SpecTool == Init /\ [][NextTool]_vars

\* C39: the email in the header of a successful response is the email of the
\* account whose token was sent with the upstream call that succeeded
C39_HeaderEmail ==
  \A p \in GenProcs :
    pc[p] = "done" => rq[p].header = mgrEmail[rq[p].account]

\* C40: after any sequence of addAccount, removeAccount and setActiveAccount
\* calls the active-account pointer is null or the id of an account of the
\* directory, and removeAccount of the active account leaves the pointer on a
\* remaining account, or null when none remains.
C40_ActivePointer ==
  /\ [](mgrActive = NoAcct \/ mgrActive \in Range(mgrAccounts))
  /\ [][\A a \in AcctIds :
          (mgrActive = a /\ RotRemove(a))
          => IF mgrAccounts' = <<>> THEN mgrActive' = NoAcct
             ELSE mgrActive' \in Range(mgrAccounts')]_vars
\* a2 was made active by setActiveAccount while a1 and a2 were listed, then
\* removed: the pointer is on a1
C40_Witness ==
  /\ rot.kind = "other"
  /\ mgrAccounts = <<"a1">>
  /\ mgrActive = "a1"
  /\ mgrEmail["a2"] # NoEmail
  /\ dirWrites = {[accounts |-> <<"a1", "a2">>, active |-> "a2"],
                  [accounts |-> <<"a1">>, active |-> "a1"]}

====
